---- MODULE Spec2Model ----
(***************************************************************************)
(* Request-routing core of the gateway: TopologyGraph and _ReqReplyNode of *)
(* jina/peapods/runtimes/gateway/graph/topology_graph.py.                  *)
(*                                                                         *)
(* A graph description is built into nodes (TopologyGraph.__init__), a     *)
(* request is dispatched by get_leaf_tasks, which creates one asyncio task *)
(* per path from an origin; every task runs _wait_previous_and_send, whose *)
(* two suspension points (await previous_task, await send_requests_once)   *)
(* cut it into the atomic steps RunTask, RpcReturn and RpcRaise.  The      *)
(* route trace is attached by add_routes.  asyncio may cancel a task       *)
(* (Cancel).                                                               *)
(*                                                                         *)
(* The graph description comes from the Flow builder (add, needs,          *)
(* needs_all, inspect, join), whose operations are applied one by one to a *)
(* flow that Build hands to TopologyGraph.                                 *)
(*                                                                         *)
(* Behind the gateway: the head of a sharded pod and its polling, a        *)
(* runtime process under SIGTERM / SIGINT, the start barrier of a flow,    *)
(* and K8sPodConfig of jina/peapods/pods/config/k8s.py, the deployment     *)
(* plan of one pod (Plan, Emit).                                           *)
(***************************************************************************)
EXTENDS Integers, Sequences, FiniteSets, TLC

VARIABLES
    graph,          \* graph_representation handed to TopologyGraph.__init__
    nodes,          \* name -> _ReqReplyNode (all its fields)
    origin_nodes,   \* TopologyGraph._origin_nodes, a list of node names
    tasks,          \* the asyncio tasks, in creation order
    leaf_tasks,     \* the (flag, task) tuples get_leaf_tasks returned, per dispatch
    calls,          \* every send_requests_once call made so far, in call order
    routes,         \* per dispatch, the routes field of the response given to add_routes
    added,          \* per dispatch, how many times add_routes was applied
    clock,          \* datetime.utcnow(): it advances while an RPC is in flight, and a
                    \* task resumed right after an RPC returned may read the same value
    flow,           \* the Flow under construction: its pods, last pod, inspect mode
    program,        \* the builder operations the user applies, in order
    op_count,       \* how many of them have been applied
    built,          \* the flow has been built into the TopologyGraph
    head,           \* the head of one sharded pod and the requests it has been sent
    runtime,        \* one runtime process: its requests, the signal it got, its exit
    start,          \* one start of a flow: the pods started, ready and terminated
    k8s             \* one K8sPodConfig: what it was given, the object, what it emitted

\* the TopologyGraph and the dispatches over it
topology == <<graph, nodes, origin_nodes, tasks, leaf_tasks, calls, routes, added, clock>>

\* the Flow builder
builder == <<flow, program, op_count, built>>

\* the pods behind the gateway
deployment == <<head, runtime, start, k8s>>
beside_head == <<runtime, start, k8s>>
beside_runtime == <<head, start, k8s>>
beside_start == <<head, runtime, k8s>>
beside_k8s == <<head, runtime, start>>

vars == <<graph, nodes, origin_nodes, tasks, leaf_tasks, calls, routes, added, clock,
          flow, program, op_count, built, head, runtime, start, k8s>>

---------------------------------------------------------------------------
(* Bounds of the model *)

\* dispatches over one TopologyGraph object (SpecMulti)
MaxDispatch == 2
\* applications of add_routes to one response
MaxAddRoutes == 2

\* the longest program of builder operations drawn from OpAlphabet
MaxOps == 3
\* shards of the pod behind one head
MaxShards == 2
\* requests sent to one head
MaxHeadRequests == 2
\* requests one runtime accepts
MaxRuntimeRequests == 3
\* pods of a flow being started
MaxPods == 3
\* replicas of a pod given to the deployment planner
MaxReplicas == 2

---------------------------------------------------------------------------
(* Values *)

START == "start-gateway"
END == "end-gateway"
Gateways == {START, END}

\* Python's None for a request / response
None == [src |-> "None", id |-> 0]
\* the request the client sent in dispatch rid
ClientRequest(rid) == [src |-> "client", id |-> rid]
\* the response returned by the k-th send_requests_once call, made on pod
Response(pod, k) == [src |-> pod, id |-> k]

\* None for start_time / end_time
NoTime == -1
\* None for status; resp.header.status of an error response
NoStatus == "None"
ErrorStatus == "ERROR"

NoMetadata == {}
ErrorMetadata == {"is-error"}

Endpoints == {"/index", "/custom"}

---------------------------------------------------------------------------
(* Graph descriptions: the dictionaries given to TopologyGraph.  A key maps *)
(* to the list of its outgoing node names.                                  *)

Chain3 ==
    (START :> <<"A">>) @@ ("A" :> <<"B">>) @@ ("B" :> <<"C">>) @@ ("C" :> <<END>>)

Diamond ==
    (START :> <<"A">>) @@ ("A" :> <<"B", "C">>) @@ ("B" :> <<"D">>)
    @@ ("C" :> <<"D">>) @@ ("D" :> <<END>>)

\* gateway -> {A, B}; join(A, B) -> C
Diverge ==
    (START :> <<"A", "B">>) @@ ("A" :> <<"C">>) @@ ("B" :> <<"C">>) @@ ("C" :> <<END>>)

\* B needs A and the gateway
OriginAndSuccessor ==
    (START :> <<"A", "B">>) @@ ("A" :> <<"B">>) @@ ("B" :> <<END>>)

\* A -> {B, C}, B -> C: C is reached through two paths of different length
Triangle ==
    (START :> <<"A">>) @@ ("A" :> <<"B", "C">>) @@ ("B" :> <<"C">>) @@ ("C" :> <<END>>)

\* inspect HANG: the inspector I hangs off A
Hang ==
    (START :> <<"A">>) @@ ("A" :> <<"I", "B">>) @@ ("I" :> << >>) @@ ("B" :> <<END>>)

\* a hanging inspector below a join
HangJoin ==
    (START :> <<"A", "B">>) @@ ("A" :> <<"C">>) @@ ("B" :> <<"C">>)
    @@ ("C" :> <<"I", "D">>) @@ ("I" :> << >>) @@ ("D" :> <<END>>)

\* two terminals
TwoLeaves ==
    (START :> <<"A">>) @@ ("A" :> <<"B", "C">>) @@ ("B" :> <<END>>) @@ ("C" :> <<END>>)

\* a join followed by a chain: the nodes below the join are reached twice
JoinChain ==
    (START :> <<"A", "B">>) @@ ("A" :> <<"C">>) @@ ("B" :> <<"C">>)
    @@ ("C" :> <<"D">>) @@ ("D" :> <<END>>)

\* a leaf that is no key of the description, and a pod nothing points to
Keyless ==
    (START :> <<"A">>) @@ ("A" :> <<"B">>) @@ ("Z" :> <<END>>)

Single == (START :> <<"A">>) @@ ("A" :> <<END>>)

\* the order in which the descriptions above list their keys (dict order)
KeyOrder == <<START, "A", "B", "C", "D", "I", "Z">>

Graphs ==
    {Chain3, Diamond, Diverge, OriginAndSuccessor, Triangle, Hang, HangJoin,
     TwoLeaves, JoinChain, Keyless, Single}

---------------------------------------------------------------------------
(* TopologyGraph.__init__ *)

\* the entries (key, index) of the outgoing lists of the description
Entries(g) == UNION {{<<k, i>> : i \in DOMAIN g[k]} : k \in DOMAIN g}

\* the entries that name node n as an outgoing node
IncomingEdges(g, n) == {e \in Entries(g) : g[e[1]][e[2]] = n}

\* a bug: the entries under start-gateway and end-gateway are not counted
CountPodKeys(g, n) == Cardinality({e \in IncomingEdges(g, n) : e[1] \notin Gateways})

\* num_parts_per_node[n]: one per outgoing entry naming n, under any key
num_parts_per_node(g, n) == Cardinality(IncomingEdges(g, n))

node_set(g) == (DOMAIN g \cup {g[e[1]][e[2]] : e \in Entries(g)}) \ Gateways

hanging_pod_names(g) == {k \in DOMAIN g : Len(g[k]) = 0}

origin_node_names(g) == IF START \in DOMAIN g THEN g[START] ELSE << >>

NotGateway(x) == x \notin Gateways

\* _ReqReplyNode.__init__ followed by the outgoing_nodes loop of TopologyGraph.__init__
NewNode(g, n) ==
    [name |-> n,
     outgoing_nodes |-> IF n \in DOMAIN g THEN SelectSeq(g[n], NotGateway) ELSE << >>,
     number_of_parts |-> IF num_parts_per_node(g, n) > 0 THEN num_parts_per_node(g, n) ELSE 1,
     hanging |-> n \in hanging_pod_names(g),
     parts_to_send |-> << >>,
     start_time |-> NoTime,
     end_time |-> NoTime,
     status |-> NoStatus]

TopologyGraphInit(g) == [n \in node_set(g) |-> NewNode(g, n)]

leaf(node) == Len(node.outgoing_nodes) = 0

---------------------------------------------------------------------------
(* _ReqReplyNode.get_leaf_tasks *)

\* the result of a task that has not returned yet
NoResult == <<None, NoMetadata>>

\* asyncio.create_task(self._wait_previous_and_send(request_to_send, previous_task,
\* connection_pool, endpoint)); previous_task = 0 stands for None
create_task(n, request_to_send, previous_task, endpoint, rid) ==
    [node |-> n, request |-> request_to_send, previous_task |-> previous_task,
     endpoint |-> endpoint, rid |-> rid, pc |-> "pending", call |-> 0, result |-> NoResult]

RECURSIVE get_leaf_tasks(_, _, _, _, _, _, _)
RECURSIVE outgoing_leaf_tasks(_, _, _, _, _, _, _, _)

\* the loop over self.outgoing_nodes, from its i-th node on; acc holds the
\* tasks created so far and the tuples collected so far
outgoing_leaf_tasks(nd, n, i, me, endpoint, rid, ts, tuples) ==
    IF i > Len(nd[n].outgoing_nodes) THEN [tasks |-> ts, tuples |-> tuples]
    ELSE LET t == get_leaf_tasks(nd, nd[n].outgoing_nodes[i], None, me, endpoint, rid, ts)
         IN outgoing_leaf_tasks(nd, n, i + 1, me, endpoint, rid, t.tasks, tuples \o t.tuples)

\* a bug: the task of a hanging leaf is flagged to be awaited like any other
get_leaf_tasks_all_awaited(nd, n, request_to_send, previous_task, endpoint, rid, ts) ==
    LET ts1 == Append(ts, create_task(n, request_to_send, previous_task, endpoint, rid))
        wait_previous_and_send_task == Len(ts1)
    IN IF leaf(nd[n])
       THEN [tasks |-> ts1, tuples |-> << <<TRUE, wait_previous_and_send_task>> >>]
       ELSE outgoing_leaf_tasks(nd, n, 1, wait_previous_and_send_task, endpoint, rid, ts1, << >>)

\* returns the tasks list extended by the tasks created, and the (flag, task) tuples
get_leaf_tasks(nd, n, request_to_send, previous_task, endpoint, rid, ts) ==
    LET ts1 == Append(ts, create_task(n, request_to_send, previous_task, endpoint, rid))
        wait_previous_and_send_task == Len(ts1)
    IN IF leaf(nd[n])
       THEN [tasks |-> ts1, tuples |-> << <<~nd[n].hanging, wait_previous_and_send_task>> >>]
       ELSE outgoing_leaf_tasks(nd, n, 1, wait_previous_and_send_task, endpoint, rid, ts1, << >>)

---------------------------------------------------------------------------
(* The gateway's request handler: one get_leaf_tasks per origin node, each *)
(* given the client's request                                              *)

RECURSIVE origin_leaf_tasks(_, _, _, _, _, _, _)
origin_leaf_tasks(nd, origins, i, endpoint, rid, ts, tuples) ==
    IF i > Len(origins) THEN [tasks |-> ts, tuples |-> tuples]
    ELSE LET t == get_leaf_tasks(nd, origins[i], ClientRequest(rid), 0, endpoint, rid, ts)
         IN origin_leaf_tasks(nd, origins, i + 1, endpoint, rid, t.tasks, tuples \o t.tuples)

\* number of dispatches started
dispatched == Len(leaf_tasks)

HandleRequest(endpoint) ==
    LET rid == dispatched + 1
        t == origin_leaf_tasks(nodes, origin_nodes, 1, endpoint, rid, tasks, << >>)
    IN /\ tasks' = t.tasks
       /\ leaf_tasks' = Append(leaf_tasks, t.tuples)
       /\ routes' = Append(routes, << >>)
       /\ added' = Append(added, 0)
       /\ UNCHANGED <<graph, nodes, origin_nodes, calls, clock>>
       /\ UNCHANGED <<builder, deployment>>

\* the first request over a freshly built TopologyGraph
Dispatch == \E endpoint \in Endpoints : built /\ dispatched = 0 /\ HandleRequest(endpoint)

\* a further request over the same TopologyGraph object
Redispatch ==
    \E endpoint \in Endpoints :
        /\ dispatched > 0
        /\ dispatched < MaxDispatch
        /\ HandleRequest(endpoint)

---------------------------------------------------------------------------
(* _ReqReplyNode._wait_previous_and_send, cut at its two awaits.  A task is *)
(* "pending" until previous_task has finished, "sending" while             *)
(* send_requests_once is in flight, then "done" (it returned) or "raised"  *)
(* (it ended with an exception) or "cancelled" (asyncio cancelled it).     *)

Finished(t) == tasks[t].pc \in {"done", "raised", "cancelled"}

\* return value -> the task's result
Return(t, request, metadata) ==
    tasks' = [tasks EXCEPT ![t].pc = "done", ![t].result = <<request, metadata>>]

\* a bug: the RPC is started with every part, the first one included
AnyPartArrived(parts, number_of_parts) == Len(parts) >= 1

\* the guard of line 52
AllPartsArrived(parts, number_of_parts) == Len(parts) = number_of_parts

\* a bug: start_time is stamped with every part, not with the last one
CollectPartStampingEveryPart(t, request) ==
    LET n == tasks[t].node
        parts == Append(nodes[n].parts_to_send, request)
    IN IF AllPartsArrived(parts, nodes[n].number_of_parts)
       THEN /\ nodes' = [nodes EXCEPT ![n].parts_to_send = parts, ![n].start_time = clock]
            /\ calls' = Append(calls, [requests |-> parts, pod |-> n, head |-> TRUE,
                                       endpoint |-> tasks[t].endpoint,
                                       rid |-> tasks[t].rid, returned |-> FALSE])
            /\ tasks' = [tasks EXCEPT ![t].pc = "sending", ![t].call = Len(calls) + 1]
            /\ clock' = clock + 1
       ELSE /\ nodes' = [nodes EXCEPT ![n].parts_to_send = parts, ![n].start_time = clock]
            /\ Return(t, None, NoMetadata)
            /\ UNCHANGED <<calls, clock>>

\* a bug: only the part that arrived last is sent, not the collected list
CollectPartSendingLastPart(t, request) ==
    LET n == tasks[t].node
        parts == Append(nodes[n].parts_to_send, request)
    IN IF AllPartsArrived(parts, nodes[n].number_of_parts)
       THEN /\ nodes' = [nodes EXCEPT ![n].parts_to_send = parts, ![n].start_time = clock]
            /\ calls' = Append(calls, [requests |-> <<request>>, pod |-> n, head |-> TRUE,
                                       endpoint |-> tasks[t].endpoint,
                                       rid |-> tasks[t].rid, returned |-> FALSE])
            /\ tasks' = [tasks EXCEPT ![t].pc = "sending", ![t].call = Len(calls) + 1]
            /\ clock' = clock + 1
       ELSE /\ nodes' = [nodes EXCEPT ![n].parts_to_send = parts]
            /\ Return(t, None, NoMetadata)
            /\ UNCHANGED <<calls, clock>>

\* a bug: a task that did not bring the last part waits for the parts to be
\* complete instead of returning
CollectPartWaitingForAll(t, request) ==
    LET n == tasks[t].node
        parts == Append(nodes[n].parts_to_send, request)
    IN IF AllPartsArrived(parts, nodes[n].number_of_parts)
       THEN /\ nodes' = [nodes EXCEPT ![n].parts_to_send = parts, ![n].start_time = clock]
            /\ calls' = Append(calls, [requests |-> parts, pod |-> n, head |-> TRUE,
                                       endpoint |-> tasks[t].endpoint,
                                       rid |-> tasks[t].rid, returned |-> FALSE])
            /\ tasks' = [tasks EXCEPT ![t].pc = "sending", ![t].call = Len(calls) + 1]
            /\ clock' = clock + 1
       ELSE /\ nodes' = [nodes EXCEPT ![n].parts_to_send = parts]
            /\ tasks' = [tasks EXCEPT ![t].pc = "waiting"]
            /\ UNCHANGED <<calls, clock>>

\* lines 49-59: the part is appended; with the last part the RPC is started
CollectPart(t, request) ==
    LET n == tasks[t].node
        parts == Append(nodes[n].parts_to_send, request)
    IN IF AllPartsArrived(parts, nodes[n].number_of_parts)
       THEN /\ nodes' = [nodes EXCEPT ![n].parts_to_send = parts, ![n].start_time = clock]
            /\ calls' = Append(calls, [requests |-> parts, pod |-> n, head |-> TRUE,
                                       endpoint |-> tasks[t].endpoint,
                                       rid |-> tasks[t].rid, returned |-> FALSE])
            /\ tasks' = [tasks EXCEPT ![t].pc = "sending", ![t].call = Len(calls) + 1]
            /\ clock' = clock + 1
       ELSE /\ nodes' = [nodes EXCEPT ![n].parts_to_send = parts]
            /\ Return(t, None, NoMetadata)
            /\ UNCHANGED <<calls, clock>>

\* a bug: the error marker of the parent's result is not looked at
ForwardWithoutErrorCheck(t, request, metadata) ==
    IF request # None
    THEN CollectPart(t, request)
    ELSE Return(t, None, NoMetadata) /\ UNCHANGED <<nodes, calls, clock>>

\* a bug: the short-circuit drops the parent's response
ShortCircuitDroppingResponse(t, request, metadata) ==
    IF "is-error" \in metadata
    THEN Return(t, None, metadata) /\ UNCHANGED <<nodes, calls, clock>>
    ELSE IF request # None
         THEN CollectPart(t, request)
         ELSE Return(t, None, NoMetadata) /\ UNCHANGED <<nodes, calls, clock>>

\* a bug: a parent that resolved to no response is turned into an error result
MergeMismatchAsError(t, request, metadata) ==
    IF "is-error" \in metadata
    THEN Return(t, request, metadata) /\ UNCHANGED <<nodes, calls, clock>>
    ELSE IF request # None
         THEN CollectPart(t, request)
         ELSE Return(t, None, ErrorMetadata) /\ UNCHANGED <<nodes, calls, clock>>

\* lines 47-64 once request and metadata are known
ShortCircuitOrSend(t, request, metadata) ==
    IF "is-error" \in metadata
    THEN Return(t, request, metadata) /\ UNCHANGED <<nodes, calls, clock>>
    ELSE IF request # None
         THEN CollectPart(t, request)
         ELSE Return(t, None, NoMetadata) /\ UNCHANGED <<nodes, calls, clock>>

\* a bug: the cancellation of previous_task is taken for a return without result
EndedWithExceptionOnly(prev) == tasks[prev].pc = "raised"

\* a bug: the exception previous_task ended with is taken for a return without
\* result
EndedCancelledOnly(prev) == tasks[prev].pc = "cancelled"

\* line 45: `await previous_task` raises what previous_task ended with, its
\* exception or its CancelledError
EndedWithoutResult(prev) == tasks[prev].pc \in {"raised", "cancelled"}

\* lines 43-53: the task runs from its start (or from the end of previous_task) to
\* its first suspension or to its return
RunTask(t) ==
    /\ tasks[t].pc = "pending"
    /\ LET prev == tasks[t].previous_task
       IN IF prev = 0
          THEN ShortCircuitOrSend(t, tasks[t].request, NoMetadata)
          ELSE /\ Finished(prev)
               /\ IF EndedWithoutResult(prev)
                  THEN /\ tasks' = [tasks EXCEPT ![t].pc = tasks[prev].pc]
                       /\ UNCHANGED <<nodes, calls, clock>>
                  ELSE ShortCircuitOrSend(t, tasks[prev].result[1], tasks[prev].result[2])
    /\ UNCHANGED <<graph, origin_nodes, leaf_tasks, routes, added>>
    /\ UNCHANGED <<builder, deployment>>

\* lines 61-62
StatusOf(old, metadata) == IF "is-error" \in metadata THEN ErrorStatus ELSE old

\* lines 54-63: send_requests_once returns (resp, metadata)
RpcReturn(t, metadata) ==
    /\ tasks[t].pc = "sending"
    /\ LET n == tasks[t].node
           resp == Response(n, tasks[t].call)
       IN /\ nodes' = [nodes EXCEPT ![n].end_time = clock,
                                    ![n].status = StatusOf(@, metadata)]
          /\ Return(t, resp, metadata)
    /\ calls' = [calls EXCEPT ![tasks[t].call].returned = TRUE]
    /\ \E d \in 0..1 : clock' = clock + d
    /\ UNCHANGED <<graph, origin_nodes, leaf_tasks, routes, added>>
    /\ UNCHANGED <<builder, deployment>>

\* line 54: send_requests_once raises
RpcRaise(t) ==
    /\ tasks[t].pc = "sending"
    /\ tasks' = [tasks EXCEPT ![t].pc = "raised"]
    /\ UNCHANGED <<graph, nodes, origin_nodes, leaf_tasks, calls, routes, added, clock>>
    /\ UNCHANGED <<builder, deployment>>

\* the task that a cancellation of t reaches: Task.cancel() is passed on to the
\* task that t is awaiting, as long as that one has not finished
RECURSIVE CancelTarget(_)
CancelTarget(t) ==
    LET prev == tasks[t].previous_task
    IN IF tasks[t].pc = "pending" /\ prev # 0 /\ ~Finished(prev)
       THEN CancelTarget(prev)
       ELSE t

\* asyncio cancels a task created at lines 103-107: CancelledError is raised at
\* the await where the reached task is suspended (lines 45 and 54), or at its
\* start, and nothing of _wait_previous_and_send catches it
Cancel(t) ==
    /\ ~Finished(t)
    /\ tasks' = [tasks EXCEPT ![CancelTarget(t)].pc = "cancelled"]
    /\ UNCHANGED <<graph, nodes, origin_nodes, leaf_tasks, calls, routes, added, clock>>
    /\ UNCHANGED <<builder, deployment>>

---------------------------------------------------------------------------
(* _ReqReplyNode.add_route and TopologyGraph.add_routes *)

\* _find_route(request) is not None
HasRoute(rts, pod) == \E i \in DOMAIN rts : rts[i].pod = pod

\* a bug: the entry is added only once the RPC has returned
NeedsRouteOnceEnded(rts, node) == ~HasRoute(rts, node.name) /\ node.end_time # NoTime

\* a bug: no lookup of an entry already there
NeedsRouteWithoutLookup(rts, node) == node.start_time # NoTime

\* lines 140-147
NeedsRoute(rts, node) == ~HasRoute(rts, node.name) /\ node.start_time # NoTime

RouteOf(node) ==
    [pod |-> node.name, start_time |-> node.start_time,
     end_time |-> node.end_time, status |-> node.status]

RECURSIVE add_route(_, _, _)
RECURSIVE outgoing_add_route(_, _, _, _)

outgoing_add_route(nd, n, i, rts) ==
    IF i > Len(nd[n].outgoing_nodes) THEN rts
    ELSE outgoing_add_route(nd, n, i + 1, add_route(nd, nd[n].outgoing_nodes[i], rts))

add_route(nd, n, rts) ==
    outgoing_add_route(nd, n, 1,
        IF NeedsRoute(rts, nd[n]) THEN Append(rts, RouteOf(nd[n])) ELSE rts)

RECURSIVE add_routes(_, _, _, _)
add_routes(nd, origins, i, rts) ==
    IF i > Len(origins) THEN rts
    ELSE add_routes(nd, origins, i + 1, add_route(nd, origins[i], rts))

\* the tasks of dispatch rid the gateway awaits
Awaited(rid) == {leaf_tasks[rid][i][2] : i \in {j \in DOMAIN leaf_tasks[rid] : leaf_tasks[rid][j][1]}}

\* the gateway, once the tasks it awaits have returned, attaches the route trace
AddRoutes(rid) ==
    /\ rid \in DOMAIN leaf_tasks
    /\ added[rid] < MaxAddRoutes
    /\ \A t \in Awaited(rid) : tasks[t].pc = "done"
    /\ routes' = [routes EXCEPT ![rid] = add_routes(nodes, origin_nodes, 1, @)]
    /\ added' = [added EXCEPT ![rid] = @ + 1]
    /\ UNCHANGED <<graph, nodes, origin_nodes, tasks, leaf_tasks, calls, clock>>
    /\ UNCHANGED <<builder, deployment>>

---------------------------------------------------------------------------
(* The Flow builder (graph compiler): add, needs, needs_all, inspect, join  *)
(* and the graph description handed to TopologyGraph.  A flow is the record *)
(* [pod_nodes, last_pod, inspect, error]; pod_nodes lists the pods in the   *)
(* order of their addition, each with its name, its needs and its role.     *)

GATEWAY == "gateway"

ReservedNames == {GATEWAY, START, END}

\* Flow(inspect=...)
InspectModes == {"HANG", "COLLECT", "REMOVE"}

EmptyFlow(mode) ==
    [pod_nodes |-> << >>, last_pod |-> GATEWAY, inspect |-> mode, error |-> "none"]

\* the operations of a program
AddOp(name, needs) == [op |-> "add", name |-> name, needs |-> needs]
NeedsOp(needs, name) == [op |-> "needs", name |-> name, needs |-> needs]
NeedsAllOp(name) == [op |-> "needs_all", name |-> name, needs |-> {}]
InspectOp(name) == [op |-> "inspect", name |-> name, needs |-> {}]
JoinOp(needs) == [op |-> "join", name |-> "joiner", needs |-> needs]

\* the names in use: those of the pods, and the gateway
PodNames(f) == {f.pod_nodes[i].name : i \in DOMAIN f.pod_nodes}

AllNames(f) == PodNames(f) \cup {GATEWAY}

\* the names that some pod needs
AllNeeds(f) == UNION {f.pod_nodes[i].needs : i \in DOMAIN f.pod_nodes}

\* a bug: a name already in use is refused
UsedNameRejected(f, name) == IF name \in PodNames(f) THEN "DuplicateName" ELSE "none"

\* the add of a name already in use raises nothing
UsedNameError(f, name) == "none"

\* the name under which the pod is added: a name already in use is extended by
\* the number of pods in the flow
NewPodName(f, name) ==
    IF name \in PodNames(f) THEN name \o ToString(Len(f.pod_nodes)) ELSE name

\* a bug: a need that names no node of the flow is accepted
AddErrorWithoutDependencyCheck(f, name, needs) ==
    IF name \in ReservedNames THEN "ReservedName"
    ELSE UsedNameError(f, name)

\* the error of add(name, needs), "none" when the add is accepted
AddError(f, name, needs) ==
    IF name \in ReservedNames THEN "ReservedName"
    ELSE IF UsedNameError(f, name) # "none" THEN UsedNameError(f, name)
    ELSE IF \E n \in needs : n \notin AllNames(f) THEN "UnknownDependency"
    ELSE "none"

\* a bug: under COLLECT the next pod does not need the inspector
NoPendingInspectors(f) == {}

\* inspect COLLECT: the inspectors that no pod needs yet
PendingInspectors(f) ==
    IF f.inspect = "COLLECT"
    THEN {f.pod_nodes[i].name : i \in {j \in DOMAIN f.pod_nodes :
                                          /\ f.pod_nodes[j].role = "inspect"
                                          /\ f.pod_nodes[j].name \notin AllNeeds(f)}}
    ELSE {}

\* the flow with one more pod; a refused pod leaves the flow as it was
add_pod(f, name, needs, role, becomes_last) ==
    LET err == AddError(f, name, needs)
        new_name == NewPodName(f, name)
    IN IF err # "none" THEN [f EXCEPT !.error = err]
       ELSE [f EXCEPT !.pod_nodes = Append(@, [name |-> new_name, needs |-> needs,
                                               role |-> role]),
                      !.last_pod = IF becomes_last THEN new_name ELSE @,
                      !.error = "none"]

\* add(name, needs): needs left out is the previous pod (the gateway for the
\* first pod); under COLLECT the inspectors not yet needed are needed too
add(f, name, needs) ==
    LET given == IF needs = {} THEN {f.last_pod} ELSE needs
    IN add_pod(f, name, given \cup PendingInspectors(f), "pod", TRUE)

\* needs(needs, name): an explicit join
needs(f, needs_, name) == add(f, name, needs_)

\* a bug: needs_all joins every pod of the flow
EveryPod(f) == IF PodNames(f) = {} THEN {GATEWAY} ELSE PodNames(f)

\* the names that no pod needs
LeafPods(f) == AllNames(f) \ AllNeeds(f)

\* needs_all(name): a join over the pods that are leaves now
needs_all(f, name) == add(f, name, LeafPods(f))

\* join(needs): a join named joiner
join(f, needs_) == needs(f, needs_, "joiner")

\* a bug: the inspector is added under REMOVE too
inspect_in_every_mode(f, name) == add_pod(f, name, {f.last_pod}, "inspect", FALSE)

\* inspect(name): an inspector off the last pod, which stays the last pod; under
\* REMOVE the flow stays as it is
inspect(f, name) ==
    IF f.inspect = "REMOVE" THEN [f EXCEPT !.error = "none"]
    ELSE add_pod(f, name, {f.last_pod}, "inspect", FALSE)

\* one operation of a program
ApplyOp(f, o) ==
    CASE o.op = "add" -> add(f, o.name, o.needs)
      [] o.op = "needs" -> needs(f, o.needs, o.name)
      [] o.op = "needs_all" -> needs_all(f, o.name)
      [] o.op = "inspect" -> inspect(f, o.name)
      [] o.op = "join" -> join(f, o.needs)

\* the names of the pods that need n, in the order of their addition
RECURSIVE NeededBy(_, _, _)
NeededBy(pods, i, n) ==
    IF i > Len(pods) THEN << >>
    ELSE (IF n \in pods[i].needs THEN <<pods[i].name>> ELSE << >>)
         \o NeededBy(pods, i + 1, n)

\* inspect HANG: an inspector that no pod needs is left hanging
HangingInspector(f, p) ==
    /\ f.inspect = "HANG"
    /\ p.role = "inspect"
    /\ p.name \notin AllNeeds(f)

\* the pods that feed end-gateway: no pod needs them but hanging inspectors,
\* and they are no hanging inspectors themselves
FeedsEndGateway(f, p) ==
    /\ ~HangingInspector(f, p)
    /\ \A i \in DOMAIN f.pod_nodes :
          p.name \in f.pod_nodes[i].needs => HangingInspector(f, f.pod_nodes[i])

\* the graph description of the flow
GraphRepresentation(f) ==
    [k \in {START} \cup PodNames(f) |->
        IF k = START THEN NeededBy(f.pod_nodes, 1, GATEWAY)
        ELSE LET p == CHOOSE q \in {f.pod_nodes[i] : i \in DOMAIN f.pod_nodes} : q.name = k
             IN NeededBy(f.pod_nodes, 1, k)
                \o (IF FeedsEndGateway(f, p) THEN <<END>> ELSE << >>)]

\* the next operation of the program
NextOp == program[op_count + 1]

Step(f) ==
    /\ flow' = f
    /\ op_count' = op_count + 1
    /\ UNCHANGED <<program, built>>
    /\ UNCHANGED <<topology, deployment>>

Ready(kind) == ~built /\ op_count < Len(program) /\ NextOp.op = kind

Add == Ready("add") /\ Step(add(flow, NextOp.name, NextOp.needs))

Needs == Ready("needs") /\ Step(needs(flow, NextOp.needs, NextOp.name))

NeedsAll == Ready("needs_all") /\ Step(needs_all(flow, NextOp.name))

Inspect == Ready("inspect") /\ Step(inspect(flow, NextOp.name))

Join == Ready("join") /\ Step(join(flow, NextOp.needs))

\* the flow is built: its graph description is handed to TopologyGraph
Build ==
    /\ ~built
    /\ op_count = Len(program)
    /\ built' = TRUE
    /\ graph' = GraphRepresentation(flow)
    /\ nodes' = TopologyGraphInit(graph')
    /\ origin_nodes' = origin_node_names(graph')
    /\ UNCHANGED <<tasks, leaf_tasks, calls, routes, added, clock>>
    /\ UNCHANGED <<flow, program, op_count>>
    /\ UNCHANGED deployment

---------------------------------------------------------------------------
(* The head of a sharded pod: polling *)

ANY == "ANY"
ALL == "ALL"
PollingType == {ANY, ALL}
Wildcard == "*"
PollingEndpoints == {"/index", "/search", "/custom"}

\* each shard's executor answers every endpoint by appending one document
\* (test_flow_routing.py, SimpleAddExecutor and DynamicPollingExecutor)
DocsIn == 1
DocsAdded == 1

\* the values of the polling argument: a single policy p, written as the map
\* with the one entry '*' -> p, and the maps of the tests
PollingOf(p) == [e \in {Wildcard} |-> p]

custom_polling_config(p) ==
    [e \in {"/custom", "/search", Wildcard} |->
        IF e = "/custom" THEN ALL ELSE IF e = "/search" THEN ANY ELSE p]

PollingArgs ==
    {PollingOf(p) : p \in PollingType} \cup {custom_polling_config(p) : p \in PollingType}

WildcardOnly(polling, endpoint) == polling[Wildcard]

\* the policy of an endpoint the polling argument does not name: '/index' is
\* always answered by one shard and '/search' by every shard, whatever '*' says
DefaultPolling(polling, endpoint) ==
    IF endpoint = "/index" THEN ANY
    ELSE IF endpoint = "/search" THEN ALL
    ELSE polling[Wildcard]

PolicyFor(polling, endpoint) ==
    IF endpoint \in DOMAIN polling
    THEN polling[endpoint]
    ELSE DefaultPolling(polling, endpoint)

Shards == 0 .. head.shards - 1

NoHead == [shards |-> 1, polling |-> PollingOf(ANY), requests |-> << >>]

NewHeadRequest(endpoint, policy, targets) ==
    [endpoint |-> endpoint,
     policy   |-> policy,
     pending  |-> targets,                  \* shards sent the request, yet to answer
     invoked  |-> [s \in Shards |-> 0],     \* how often each shard's executor ran
     docs     |-> DocsIn,                   \* documents of the merged response
     done     |-> FALSE]

\* the head takes a request: ALL fans it out to every shard, ANY to one shard
HeadReceive(endpoint) ==
    /\ Len(head.requests) < MaxHeadRequests
    /\ LET policy == PolicyFor(head.polling, endpoint)
       IN  \E one \in Shards :
              LET targets == IF policy = ALL THEN Shards ELSE {one}
              IN  head' = [head EXCEPT !.requests =
                              Append(@, NewHeadRequest(endpoint, policy, targets))]
    /\ UNCHANGED <<topology, builder, beside_head>>

\* a shard runs its executor on the request and answers the head, which merges
\* the answer into the response: the documents it did not have yet are added
ShardHandle(r, s) ==
    /\ s \in head.requests[r].pending
    /\ head' = [head EXCEPT !.requests[r].pending = @ \ {s},
                            !.requests[r].invoked[s] = @ + 1,
                            !.requests[r].docs = @ + DocsAdded]
    /\ UNCHANGED <<topology, builder, beside_head>>

\* every shard the request was sent to has answered: the head responds
HeadRespond(r) ==
    /\ ~head.requests[r].done
    /\ head.requests[r].pending = {}
    /\ head' = [head EXCEPT !.requests[r].done = TRUE]
    /\ UNCHANGED <<topology, builder, beside_head>>


---------------------------------------------------------------------------
(* A runtime process and the signals sent to it *)

SIGTERM == "SIGTERM"
SIGINT == "SIGINT"
Signals == {SIGTERM, SIGINT}
NoSignal == "none"
RuntimeKinds == {"executor", "gateway"}

NewRuntime(kind) ==
    [kind                |-> kind,
     state               |-> "running",   \* running, stopping, closed, exited
     signal              |-> NoSignal,    \* the signal received, if any
     accepted            |-> 0,           \* requests accepted
     request_count       |-> 0,           \* requests the executor has completed
     completed_at_signal |-> 0,           \* request_count when the signal arrived
     closes              |-> 0,           \* calls of the executor's close()
     seen_by_close       |-> 0]           \* request_count as close() wrote it

NoRuntime == NewRuntime("executor")

ClosesAtOnce(rt) == TRUE

\* every accepted request has been completed
Drained(rt) == rt.request_count = rt.accepted

\* a running runtime accepts a request
Accept ==
    /\ runtime.state = "running"
    /\ runtime.accepted < MaxRuntimeRequests
    /\ runtime' = [runtime EXCEPT !.accepted = @ + 1]
    /\ UNCHANGED <<topology, builder, beside_runtime>>

\* DummyExecutor.slow_count: an accepted request is completed
Complete ==
    /\ runtime.state \in {"running", "stopping"}
    /\ runtime.request_count < runtime.accepted
    /\ runtime' = [runtime EXCEPT !.request_count = @ + 1]
    /\ UNCHANGED <<topology, builder, beside_runtime>>

\* os.kill(process.pid, signal): the runtime stops accepting
Signal(sig) ==
    /\ runtime.state = "running"
    /\ runtime' = [runtime EXCEPT !.state = "stopping",
                                  !.signal = sig,
                                  !.completed_at_signal = runtime.request_count]
    /\ UNCHANGED <<topology, builder, beside_runtime>>

\* the executor runtime, once drained, calls DummyExecutor.close
Close ==
    /\ runtime.kind = "executor"
    /\ runtime.state = "stopping"
    /\ Drained(runtime)
    /\ runtime' = [runtime EXCEPT !.state = "closed",
                                  !.closes = @ + 1,
                                  !.seen_by_close = runtime.request_count]
    /\ UNCHANGED <<topology, builder, beside_runtime>>

\* the process ends: process.join() returns
Exit ==
    /\ \/ runtime.kind = "executor" /\ runtime.state = "closed"
       \/ runtime.kind = "gateway" /\ runtime.state = "stopping" /\ Drained(runtime)
    /\ runtime' = [runtime EXCEPT !.state = "exited"]
    /\ UNCHANGED <<topology, builder, beside_runtime>>

---------------------------------------------------------------------------
(* Starting a flow: the start barrier *)

RuntimeFailToStart == "RuntimeFailToStart"
NoError == "none"

\* a flow of n pods, numbered in dependency order, some of which cannot become
\* ready (uses='hello-there' or host='hello-there')
NewStart(n, bad) ==
    [pods       |-> 1 .. n,
     bad        |-> bad,
     state      |-> "starting",   \* starting, running, aborting, failed
     started    |-> << >>,        \* the pods started, in the order of their start
     ready      |-> {},           \* the started pods that have become ready
     terminated |-> << >>,        \* the pods terminated, in the order of their end
     error      |-> NoError]

NoStart == NewStart(0, {})

RECURSIVE Reverse(_)
Reverse(s) == IF s = << >> THEN << >> ELSE Append(Reverse(Tail(s)), Head(s))

Range(s) == {s[i] : i \in DOMAIN s}

\* the started pods still alive, in the order of their start
Alive(st) == SelectSeq(st.started, LAMBDA p : p \notin Range(st.terminated))

EarliestStarted(st) == Head(Alive(st))

\* teardown goes in reverse dependency order: the pod started last ends first
NextToTerminate(st) == Alive(st)[Len(Alive(st))]

\* the next pod, in dependency order, is started
StartPod ==
    /\ start.state = "starting"
    /\ Len(start.started) < Cardinality(start.pods)
    /\ start' = [start EXCEPT !.started = Append(@, Len(@) + 1)]
    /\ UNCHANGED <<topology, builder, beside_start>>

\* a started pod answers the readiness probe
PodReady(p) ==
    /\ start.state = "starting"
    /\ p \in Range(start.started) \ (start.ready \cup start.bad)
    /\ start' = [start EXCEPT !.ready = @ \cup {p}]
    /\ UNCHANGED <<topology, builder, beside_start>>

\* a started pod does not become ready within timeout_ready: the flow aborts
PodFails(p) ==
    /\ start.state = "starting"
    /\ p \in Range(start.started) \cap start.bad
    /\ start' = [start EXCEPT !.state = "aborting", !.error = RuntimeFailToStart]
    /\ UNCHANGED <<topology, builder, beside_start>>

\* every pod is ready: the flow runs
FlowRuns ==
    /\ start.state = "starting"
    /\ start.ready = start.pods
    /\ start' = [start EXCEPT !.state = "running"]
    /\ UNCHANGED <<topology, builder, beside_start>>

\* an aborting flow terminates one of the pods it started
TerminatePod ==
    /\ start.state = "aborting"
    /\ Alive(start) # << >>
    /\ start' = [start EXCEPT !.terminated = Append(@, NextToTerminate(start))]
    /\ UNCHANGED <<topology, builder, beside_start>>

\* nothing is left alive: starting the flow raises the error
StartRaises ==
    /\ start.state = "aborting"
    /\ Alive(start) = << >>
    /\ start' = [start EXCEPT !.state = "failed"]
    /\ UNCHANGED <<topology, builder, beside_start>>

---------------------------------------------------------------------------
(* K8sPodConfig: the deployment plan of one pod.  Strings are sequences of
   characters, so that formatting and to_dns_name are computed, not assumed. *)

K8S_PORT_IN == 8081
K8S_PORT_USES_BEFORE == 8082
K8S_PORT_USES_AFTER == 8083

HEAD == "HEAD"
WORKER == "WORKER"
GATEWAY_ROLE == "GATEWAY"

gateway == <<"g", "a", "t", "e", "w", "a", "y">>
PodNameValues == {<<"e", "x">>, <<"E", "_", "x">>, <<"a", "/", "B">>}
NamespaceValues == {<<"n", "s">>}
UsesValues == {<<"d", "o", "c", "k", "e", "r", ":", "/", "/", "u">>}
AddressMaps == {[items |-> << >>], [items |-> <<<<<<"e", "x">>, <<"h", ":", "1">>>>>>]}

Digit == <<"1", "2", "3", "4", "5", "6", "7", "8", "9">>

\* str(i) of a natural number
RECURSIVE Str(_)
Str(i) ==
    IF i < 10
    THEN <<IF i = 0 THEN "0" ELSE Digit[i]>>
    ELSE Str(i \div 10) \o Str(i % 10)

\* None where a string may stand; None itself where a dictionary, a Namespace
\* or a deployment may stand
NoneStr == <<"None">>

\* str(x) inside an f-string, of a string or of None
Format(x) == IF x = NoneStr THEN <<"N", "o", "n", "e">> ELSE x

UpperCase == {"A", "B", "E", "X"}

lower(c) ==
    CASE c = "A" -> "a"
      [] c = "B" -> "b"
      [] c = "E" -> "e"
      [] c = "X" -> "x"
      [] OTHER   -> c

replace(s, old, new) == [i \in DOMAIN s |-> IF s[i] = old THEN new ELSE s[i]]

\* kubernetes_deployment.to_dns_name
to_dns_name(name) ==
    LET dashed == replace(replace(name, "/", "-"), "_", "-")
    IN  [i \in DOMAIN dashed |-> lower(dashed[i])]

\* a dict, as the list of its (key, value) items; {} is the empty one
EmptyDict == [items |-> << >>]

\* the non-empty uses_metas a pod is given
UsesMetasValues == {[items |-> <<<<"workspace", <<"w">>>>>>]}

\* d[key] = value
RECURSIVE setitem(_, _, _)
setitem(items, key, value) ==
    IF items = << >> THEN <<<<key, value>>>>
    ELSE IF Head(items)[1] = key THEN <<<<key, value>>>> \o Tail(items)
    ELSE <<Head(items)>> \o setitem(Tail(items), key, value)

\* the Namespace of a pod's arguments; an attribute the parser does not define
\* reads as None through getattr
PodArgs(name, shards, replicas, uses_before, uses_after, namespace) ==
    [name                |-> name,
     shards              |-> shards,
     replicas            |-> replicas,
     uses                |-> <<"u">>,
     uses_metas          |-> None,
     uses_with           |-> None,
     uses_before         |-> uses_before,
     uses_after          |-> uses_after,
     port_in             |-> 0,
     shard_id            |-> 0,
     pea_role            |-> IF name = gateway THEN GATEWAY_ROLE ELSE WORKER,
     k8s_namespace       |-> namespace,
     k8s_connection_pool |-> TRUE,
     connection_list     |-> None,
     uses_before_address |-> NoneStr,
     uses_after_address  |-> NoneStr]

\* BasePod._copy_to_head_args: the arguments of the pod's head, a copy of the
\* pod's with one replica and the head's role and name
_copy_to_head_args(args) ==
    [args EXCEPT !.replicas = 1,
                 !.pea_role = HEAD,
                 !.name     = args.name \o <<"/", "h", "e", "a", "d">>]

AddressWithoutSvc(name, namespace) ==
    name \o <<".">> \o Format(namespace) \o <<":">> \o Str(K8S_PORT_IN)

\* f'{name}.{self.k8s_namespace}.svc:{K8sGrpcConnectionPool.K8S_PORT_IN}'
ShardAddress(name, namespace) ==
    name \o <<".">> \o Format(namespace) \o <<".", "s", "v", "c", ":">> \o Str(K8S_PORT_IN)

\* a bug: the host of a shard is built from the pod's name as it is
ShardDnsNameOfRawName(name, shards, i) ==
    IF shards > 1 THEN name \o <<"-">> \o Str(i) ELSE name

\* f'{to_dns_name(self.name)}-{i}' if shards > 1 else f'{to_dns_name(self.name)}'
ShardDnsName(name, shards, i) ==
    IF shards > 1
    THEN to_dns_name(name) \o <<"-">> \o Str(i)
    ELSE to_dns_name(name)

\* json.dumps(connection_list): the members of the JSON object, in the order
\* of their insertion
connection_list(name, shards, namespace) ==
    [json |-> [k \in 1 .. shards |->
        <<Str(k - 1), ShardAddress(ShardDnsName(name, shards, k - 1), namespace)>>]]

\* f'127.0.0.1:{port}'
Localhost(port) == <<"1", "2", "7", ".", "0", ".", "0", ".", "1", ":">> \o Str(port)

NoShardSuffix(name, n, i) == name

\* K8sPodConfig.__init__, line 252: the name of worker deployment i of n
WorkerName(name, n, i) ==
    IF n > 1 THEN name \o <<"-">> \o Str(i) ELSE name

\* f'{name}-{i}' if there is more than one shard, else name
ShardName(name, shards, i) ==
    IF shards > 1 THEN name \o <<"-">> \o Str(i) ELSE name

SidecarsKept(args, i) ==
    [args EXCEPT !.shard_id = i,
                 !.port_in = K8S_PORT_IN,
                 !.name = ShardName(args.name, args.shards, i),
                 !.pea_role = IF args.name = gateway THEN GATEWAY_ROLE ELSE @,
                 !.k8s_connection_pool = IF args.name = gateway THEN @ ELSE FALSE]

\* _get_deployment_args, lines 318-331: the arguments of worker i
WorkerArgs(args, i) ==
    [args EXCEPT !.shard_id = i,
                 !.uses_before = NoneStr,
                 !.uses_after = NoneStr,
                 !.port_in = K8S_PORT_IN,
                 !.name = ShardName(args.name, args.shards, i),
                 !.pea_role = IF args.name = gateway THEN GATEWAY_ROLE ELSE @,
                 !.k8s_connection_pool = IF args.name = gateway THEN @ ELSE FALSE]

\* _get_deployment_args, lines 279-316: the arguments of the head, None for the
\* gateway, whose arguments declare no uses_before and no uses_after.  args is
\* self.args; namespace and pool are the planner's own fields.
HeadArgs(args, namespace, pool) ==
    IF args.name = gateway
    THEN None
    ELSE LET head0 == [_copy_to_head_args(args) EXCEPT
                          !.port_in = K8S_PORT_IN,
                          !.uses = NoneStr, !.uses_metas = None, !.uses_with = None]
             head1 == [head0 EXCEPT !.connection_list =
                          IF pool THEN @
                          ELSE connection_list(args.name, args.shards, namespace)]
             head2 == [head1 EXCEPT !.uses_before_address =
                          IF args.uses_before # NoneStr
                          THEN Localhost(K8S_PORT_USES_BEFORE) ELSE @]
         IN  [head2 EXCEPT !.uses_after_address =
                          IF args.uses_after # NoneStr
                          THEN Localhost(K8S_PORT_USES_AFTER) ELSE @]

\* K8sPodConfig._get_deployment_args
_get_deployment_args(args, namespace, pool) ==
    [head_deployment |-> HeadArgs(args, namespace, pool),
     deployments     |-> [k \in 1 .. args.shards |-> WorkerArgs(args, k - 1)]]

\* K8sPodConfig._K8sDeployment.__init__
_K8sDeployment(name, pea_type, jina_pod_name, shard_id, deployment_args, namespace, pool, addresses) ==
    [name                |-> name,
     dns_name            |-> to_dns_name(name),
     pea_type            |-> pea_type,
     jina_pod_name       |-> jina_pod_name,
     shard_id            |-> shard_id,
     deployment_args     |-> deployment_args,
     num_replicas        |-> deployment_args.replicas,
     k8s_namespace       |-> namespace,
     k8s_connection_pool |-> pool,
     k8s_pod_addresses   |-> addresses]

AddressesAsGiven(pool, addresses) == addresses

\* K8sPodConfig.__init__, lines 222-224
PodAddresses(pool, addresses) == IF pool THEN None ELSE addresses

\* K8sPodConfig.__init__
K8sPodConfig(args, k8s_namespace, k8s_connection_pool, k8s_pod_addresses) ==
    LET addresses == PodAddresses(k8s_connection_pool, k8s_pod_addresses)
        self_args == [args EXCEPT
                         !.k8s_namespace = IF k8s_namespace # NoneStr
                                           THEN k8s_namespace ELSE @,
                         !.k8s_connection_pool = k8s_connection_pool]
        name == self_args.name
        deployment_args ==
            _get_deployment_args(self_args, k8s_namespace, k8s_connection_pool)
        workers == deployment_args.deployments
    IN  [k8s_namespace       |-> k8s_namespace,
         k8s_connection_pool |-> k8s_connection_pool,
         k8s_pod_addresses   |-> addresses,
         args                |-> self_args,
         name                |-> name,
         deployment_args     |-> deployment_args,
         head_deployment     |->
             IF deployment_args.head_deployment # None
             THEN _K8sDeployment(deployment_args.head_deployment.name, HEAD, name,
                                 None, deployment_args.head_deployment,
                                 k8s_namespace, k8s_connection_pool, addresses)
             ELSE None,
         worker_deployments  |->
             [k \in DOMAIN workers |->
                 LET worker_name == WorkerName(name, Len(workers), k - 1)
                 IN  _K8sDeployment(worker_name,
                                    IF worker_name # gateway THEN WORKER
                                    ELSE GATEWAY_ROLE,
                                    name, k - 1, workers[k],
                                    k8s_namespace, k8s_connection_pool, addresses)]]

\* kubernetes_deployment.get_image_name of a docker:// image: the prefix goes
get_image_name(uses) == SubSeq(uses, 10, Len(uses))

\* the arguments of a sidecar container (get_runtime_yamls, lines 163-190)
SidecarArgs(cargs, common_name, uses, suffix, port) ==
    [cargs EXCEPT !.uses = uses,
                  !.name = common_name \o <<"/">> \o suffix,
                  !.port_in = port,
                  !.uses_before_address = NoneStr,
                  !.uses_after_address = NoneStr,
                  !.connection_list = None,
                  !.pea_role = WORKER]

\* the template get_deployment_yamls picks (kubernetes_deployment.py, 95-102)
template_name(image_uses_before, image_uses_after) ==
    IF image_uses_before # NoneStr /\ image_uses_after # NoneStr
    THEN "deployment-uses-before-after"
    ELSE IF image_uses_before # NoneStr THEN "deployment-uses-before"
    ELSE IF image_uses_after # NoneStr THEN "deployment-uses-after"
    ELSE "deployment"

\* `cargs.uses_metas or {}` (line 135) is cargs.uses_metas itself unless that is
\* None or empty
Truthy(uses_metas) == uses_metas # None /\ uses_metas # EmptyDict

\* shard_id is None for the head deployment only (line 239), i for worker i
HasShardId(d) == d.pea_type # HEAD

\* _get_container_args, lines 135-137: the dict that goes into --uses-metas
container_uses_metas(d, cargs) ==
    LET uses_metas == IF Truthy(cargs.uses_metas) THEN cargs.uses_metas ELSE EmptyDict
    IN  IF HasShardId(d)
        THEN [items |-> setitem(uses_metas.items, "pea_id", Str(d.shard_id))]
        ELSE uses_metas

\* self.deployment_args once get_runtime_yamls has run: cargs is a shallow copy
\* (line 148), so a dict in uses_metas is the stored one and line 137 writes into
\* it, while line 140 rebinds uses on the copy only
deployment_args_after_yamls(d) ==
    [d.deployment_args EXCEPT !.uses_metas =
        IF Truthy(@) THEN container_uses_metas(d, d.deployment_args) ELSE @]

\* _K8sDeployment.get_runtime_yamls: the parameters of the deployment template
get_runtime_yamls(d, common_name) ==
    LET cargs == d.deployment_args
        image_name_uses_before ==
            IF cargs.uses_before # NoneStr
            THEN get_image_name(cargs.uses_before) ELSE NoneStr
        image_name_uses_after ==
            IF cargs.uses_after # NoneStr
            THEN get_image_name(cargs.uses_after) ELSE NoneStr
    IN  [name              |-> d.dns_name,
         namespace         |-> d.k8s_namespace,
         replicas          |-> d.num_replicas,
         port_in           |-> K8S_PORT_IN,
         image_uses_before |-> image_name_uses_before,
         image_uses_after  |-> image_name_uses_after,
         args_uses_before  |->
             IF cargs.uses_before # NoneStr
             THEN SidecarArgs(cargs, common_name, cargs.uses_before,
                              <<"u", "s", "e", "s", "-", "b", "e", "f", "o", "r", "e">>,
                              K8S_PORT_USES_BEFORE)
             ELSE None,
         args_uses_after   |->
             IF cargs.uses_after # NoneStr
             THEN SidecarArgs(cargs, common_name, cargs.uses_after,
                              <<"u", "s", "e", "s", "-", "a", "f", "t", "e", "r">>,
                              K8S_PORT_USES_AFTER)
             ELSE None,
         template          |-> template_name(image_name_uses_before,
                                             image_name_uses_after),
         jina_pod_name     |-> d.jina_pod_name,
         pea_type          |-> d.pea_type,
         shard_id          |-> d.shard_id,
         uses_metas        |-> container_uses_metas(d, cargs),
         pods_addresses    |-> None]

\* _K8sDeployment.get_gateway_yamls
get_gateway_yamls(d) ==
    [name              |-> d.dns_name,
     namespace         |-> d.k8s_namespace,
     replicas          |-> 1,
     port_in           |-> K8S_PORT_IN,
     image_uses_before |-> NoneStr,
     image_uses_after  |-> NoneStr,
     args_uses_before  |-> None,
     args_uses_after   |-> None,
     template          |-> "deployment",
     jina_pod_name     |-> gateway,
     pea_type          |-> d.pea_type,
     shard_id          |-> None,
     pods_addresses    |-> d.k8s_pod_addresses]

WorkersFirst(config) ==
    LET deployments == config.worker_deployments \o <<config.head_deployment>>
    IN  [k \in DOMAIN deployments |->
            <<deployments[k].dns_name,
              get_runtime_yamls(deployments[k], config.args.name)>>]

\* K8sPodConfig.to_k8s_yaml
to_k8s_yaml(config) ==
    IF config.name = gateway
    THEN <<<<gateway, get_gateway_yamls(config.worker_deployments[1])>>>>
    ELSE LET deployments == <<config.head_deployment>> \o config.worker_deployments
         IN  [k \in DOMAIN deployments |->
                 <<deployments[k].dns_name,
                   get_runtime_yamls(deployments[k], config.args.name)>>]

\* the planner once to_k8s_yaml has run: get_runtime_yamls has been called on
\* the head and on every worker deployment (lines 347-359), get_gateway_yamls
\* on the gateway's (it assigns to its copy only, lines 70-71)
after_to_k8s_yaml(config) ==
    IF config.name = gateway
    THEN config
    ELSE LET touched(d) == [d EXCEPT !.deployment_args = deployment_args_after_yamls(d)]
         IN  [config EXCEPT
                 !.head_deployment = touched(@),
                 !.worker_deployments = [k \in DOMAIN @ |-> touched(@[k])],
                 !.deployment_args =
                     [head_deployment |-> touched(config.head_deployment).deployment_args,
                      deployments     |->
                          [k \in DOMAIN config.worker_deployments |->
                              touched(config.worker_deployments[k]).deployment_args]]]

\* the arguments a planner is called with, before it is constructed
NewPlan(args, namespace, pool, addresses) ==
    [args              |-> args,
     k8s_namespace     |-> namespace,
     k8s_connection_pool |-> pool,
     k8s_pod_addresses |-> addresses,
     config            |-> None,
     emitted           |-> FALSE,
     yamls             |-> << >>]

NoPlan == NewPlan(PodArgs(gateway, 1, 1, NoneStr, NoneStr, NoneStr), NoneStr, TRUE, None)

\* K8sPodConfig(args, k8s_namespace, k8s_connection_pool, k8s_pod_addresses)
Plan ==
    /\ k8s.config = None
    /\ k8s' = [k8s EXCEPT !.config =
                  K8sPodConfig(k8s.args, k8s.k8s_namespace,
                               k8s.k8s_connection_pool, k8s.k8s_pod_addresses)]
    /\ UNCHANGED <<topology, builder, beside_k8s>>

\* K8sPodConfig.to_k8s_yaml()
Emit ==
    /\ k8s.config # None
    /\ ~k8s.emitted
    /\ k8s' = [k8s EXCEPT !.emitted = TRUE,
                          !.yamls = to_k8s_yaml(k8s.config),
                          !.config = after_to_k8s_yaml(k8s.config)]
    /\ UNCHANGED <<topology, builder, beside_k8s>>

\* nothing has been sent to the pods
PodsIdle ==
    /\ head = NoHead
    /\ runtime = NoRuntime
    /\ start = NoStart
    /\ k8s = NoPlan

---------------------------------------------------------------------------
(* Specifications *)

Init ==
    /\ graph \in Graphs
    /\ nodes = TopologyGraphInit(graph)
    /\ origin_nodes = origin_node_names(graph)
    /\ tasks = << >>
    /\ leaf_tasks = << >>
    /\ calls = << >>
    /\ routes = << >>
    /\ added = << >>
    /\ clock = 0
    /\ flow = EmptyFlow("REMOVE")
    /\ program = << >>
    /\ op_count = 0
    /\ built = TRUE
    /\ PodsIdle

Next ==
    \/ Dispatch
    \/ \E t \in DOMAIN tasks : RunTask(t)
    \/ \E t \in DOMAIN tasks : RpcReturn(t, NoMetadata)
    \/ \E t \in DOMAIN tasks : RpcReturn(t, ErrorMetadata)
    \/ \E t \in DOMAIN tasks : RpcRaise(t)
    \/ \E rid \in DOMAIN leaf_tasks : AddRoutes(rid)

\* one request over a freshly built graph
Spec == Init /\ [][Next]_vars

\* one request over a freshly built graph, under a fair event loop: a task that
\* can run is run, and a send_requests_once call in flight comes back
SpecFair ==
    /\ Spec
    /\ WF_vars(\E t \in DOMAIN tasks : RunTask(t))
    /\ WF_vars(\E t \in DOMAIN tasks :
                  RpcReturn(t, NoMetadata) \/ RpcReturn(t, ErrorMetadata) \/ RpcRaise(t))

\* several requests, sequential or overlapping, over one TopologyGraph object
MultiGraphs == {Single, OriginAndSuccessor}

InitMulti == Init /\ graph \in MultiGraphs

NextMulti ==
    \/ Redispatch
    \/ Dispatch
    \/ \E t \in DOMAIN tasks : RunTask(t)
    \/ \E t \in DOMAIN tasks : RpcReturn(t, NoMetadata)
    \/ \E t \in DOMAIN tasks : RpcReturn(t, ErrorMetadata)
    \/ \E t \in DOMAIN tasks : RpcRaise(t)

SpecMulti == InitMulti /\ [][NextMulti]_vars

\* dispatches in which asyncio may cancel any unfinished task
CancelGraphs == {Chain3, Diamond, OriginAndSuccessor, JoinChain}

InitCancel == Init /\ graph \in CancelGraphs

NextCancel ==
    \/ Dispatch
    \/ \E t \in DOMAIN tasks : RunTask(t)
    \/ \E t \in DOMAIN tasks : RpcReturn(t, NoMetadata)
    \/ \E t \in DOMAIN tasks : RpcReturn(t, ErrorMetadata)
    \/ \E t \in DOMAIN tasks : RpcRaise(t)
    \/ \E t \in DOMAIN tasks : Cancel(t)

SpecCancel == InitCancel /\ [][NextCancel]_vars

\* the flows of the tests
test_flow_needs_all ==
    <<AddOp("p1", {GATEWAY}), AddOp("p2", {GATEWAY}), AddOp("p3", {GATEWAY}),
      NeedsOp({"p1", "p2"}, "r1"), NeedsAllOp("r2"), AddOp("p4", {"r2"})>>

test_flow_equalities ==
    <<AddOp("executor0", {}), AddOp("executor1", {GATEWAY}), NeedsAllOp("joiner"),
      AddOp("executor0", {})>>

test_flow2 == <<AddOp("p1", {}), InspectOp("i1")>>

test_flow3 ==
    <<AddOp("p1", {}), InspectOp("i1"), AddOp("p2", {GATEWAY}),
      NeedsOp({"p1", "p2"}, "r1"), InspectOp("i2")>>

\* test_flow3 up to its join
test_flow3_join == SubSeq(test_flow3, 1, 4)

\* test_flow4, its first two pods
test_flow4 == <<AddOp("p1", {}), InspectOp("i1"), AddOp("p2", {})>>

\* the operations of the short programs
OpAlphabet ==
    {AddOp("p1", {}), AddOp("p2", {}), AddOp("p2", {GATEWAY}), AddOp("p1", {"p2"}),
     AddOp("p3", {"p1", "p2"}), AddOp(GATEWAY, {}),
     NeedsOp({"p1", "p2"}, "r1"), NeedsAllOp("r1"), JoinOp({"p1", "p2"}),
     InspectOp("i1")}

ShortPrograms == UNION {[1..n -> OpAlphabet] : n \in 0..MaxOps}

InitFlow ==
    /\ flow \in {EmptyFlow(mode) : mode \in InspectModes}
    /\ op_count = 0
    /\ built = FALSE
    /\ PodsIdle
    /\ graph = GraphRepresentation(flow)
    /\ nodes = TopologyGraphInit(graph)
    /\ origin_nodes = origin_node_names(graph)
    /\ tasks = << >>
    /\ leaf_tasks = << >>
    /\ calls = << >>
    /\ routes = << >>
    /\ added = << >>
    /\ clock = 0

\* the builder alone: every short program and the flows of the tests
InitBuild ==
    /\ program \in ShortPrograms \cup {test_flow_needs_all, test_flow_equalities, test_flow3}
    /\ InitFlow

NextBuild ==
    \/ Add
    \/ Needs
    \/ NeedsAll
    \/ Inspect
    \/ Join
    \/ Build

SpecBuild == InitBuild /\ [][NextBuild]_vars

\* the flows with inspectors, built and given one request
InspectFlows == {test_flow2, test_flow3_join, test_flow4}

InitInspect ==
    /\ program \in InspectFlows
    /\ InitFlow

NextInspect ==
    \/ Add
    \/ Needs
    \/ Inspect
    \/ Build
    \/ Dispatch
    \/ \E t \in DOMAIN tasks : RunTask(t)
    \/ \E t \in DOMAIN tasks : RpcReturn(t, NoMetadata)
    \/ \E t \in DOMAIN tasks : RpcReturn(t, ErrorMetadata)
    \/ \E t \in DOMAIN tasks : RpcRaise(t)
    \/ \E rid \in DOMAIN leaf_tasks : AddRoutes(rid)

SpecInspect == InitInspect /\ [][NextInspect]_vars

---------------------------------------------------------------------------
(* One sharded pod: its head, the polling it was given and its shards *)

InitPolling ==
    /\ graph = Single
    /\ nodes = TopologyGraphInit(graph)
    /\ origin_nodes = origin_node_names(graph)
    /\ tasks = << >>
    /\ leaf_tasks = << >>
    /\ calls = << >>
    /\ routes = << >>
    /\ added = << >>
    /\ clock = 0
    /\ flow = EmptyFlow("REMOVE")
    /\ program = << >>
    /\ op_count = 0
    /\ built = TRUE
    /\ head \in [shards : 1 .. MaxShards, polling : PollingArgs, requests : {<< >>}]
    /\ runtime = NoRuntime
    /\ start = NoStart
    /\ k8s = NoPlan

NextPolling ==
    \/ \E endpoint \in PollingEndpoints : HeadReceive(endpoint)
    \/ \E r \in DOMAIN head.requests : \E s \in Shards : ShardHandle(r, s)
    \/ \E r \in DOMAIN head.requests : HeadRespond(r)

SpecPolling == InitPolling /\ [][NextPolling]_vars

---------------------------------------------------------------------------
(* One runtime process, started, sent requests and signalled *)

InitSignal ==
    /\ graph = Single
    /\ nodes = TopologyGraphInit(graph)
    /\ origin_nodes = origin_node_names(graph)
    /\ tasks = << >>
    /\ leaf_tasks = << >>
    /\ calls = << >>
    /\ routes = << >>
    /\ added = << >>
    /\ clock = 0
    /\ flow = EmptyFlow("REMOVE")
    /\ program = << >>
    /\ op_count = 0
    /\ built = TRUE
    /\ head = NoHead
    /\ runtime \in {NewRuntime(kind) : kind \in RuntimeKinds}
    /\ start = NoStart
    /\ k8s = NoPlan

NextSignal ==
    \/ Accept
    \/ Complete
    \/ \E sig \in Signals : Signal(sig)
    \/ Close
    \/ Exit

SpecSignal == InitSignal /\ [][NextSignal]_vars

\* the process keeps running its handlers: an accepted request is completed,
\* a drained runtime closes its executor, a closed runtime exits
SpecSignalFair ==
    /\ SpecSignal
    /\ WF_vars(Complete)
    /\ WF_vars(Close)
    /\ WF_vars(Exit)

---------------------------------------------------------------------------
(* One flow being started *)

InitStart ==
    /\ graph = Single
    /\ nodes = TopologyGraphInit(graph)
    /\ origin_nodes = origin_node_names(graph)
    /\ tasks = << >>
    /\ leaf_tasks = << >>
    /\ calls = << >>
    /\ routes = << >>
    /\ added = << >>
    /\ clock = 0
    /\ flow = EmptyFlow("REMOVE")
    /\ program = << >>
    /\ op_count = 0
    /\ built = TRUE
    /\ head = NoHead
    /\ runtime = NoRuntime
    /\ start \in {NewStart(n, bad) : n \in 1 .. MaxPods, bad \in SUBSET (1 .. MaxPods)}
    /\ start.bad \subseteq start.pods
    /\ k8s = NoPlan

NextStart ==
    \/ StartPod
    \/ \E p \in start.pods : PodReady(p)
    \/ \E p \in start.pods : PodFails(p)
    \/ FlowRuns
    \/ TerminatePod
    \/ StartRaises

SpecStart == InitStart /\ [][NextStart]_vars

---------------------------------------------------------------------------
(* One K8sPodConfig: constructed for a pod, then asked for its manifests *)

OwnNamespace == <<"o", "w", "n">>

\* the pods a flow hands to the planner: executors under any of the names, with
\* or without sidecars, and the gateway, whose arguments have neither shards
\* nor uses_before nor uses_after of their own
PlannedPods ==
    {PodArgs(name, shards, replicas, uses_before, uses_after, OwnNamespace) :
        name \in PodNameValues, shards \in 1 .. MaxShards, replicas \in 1 .. MaxReplicas,
        uses_before \in {NoneStr} \cup UsesValues,
        uses_after \in {NoneStr} \cup UsesValues}
    \cup {PodArgs(gateway, 1, 1, NoneStr, NoneStr, OwnNamespace)}

\* each of them without uses_metas, with an empty and with a non-empty one
PlannedArgs ==
    {[args EXCEPT !.uses_metas = uses_metas] :
        args \in PlannedPods, uses_metas \in {None, EmptyDict} \cup UsesMetasValues}

InitPlan ==
    /\ graph = Single
    /\ nodes = TopologyGraphInit(graph)
    /\ origin_nodes = origin_node_names(graph)
    /\ tasks = << >>
    /\ leaf_tasks = << >>
    /\ calls = << >>
    /\ routes = << >>
    /\ added = << >>
    /\ clock = 0
    /\ flow = EmptyFlow("REMOVE")
    /\ program = << >>
    /\ op_count = 0
    /\ built = TRUE
    /\ head = NoHead
    /\ runtime = NoRuntime
    /\ start = NoStart
    /\ k8s \in {NewPlan(args, namespace, pool, addresses) :
                  args \in PlannedArgs,
                  namespace \in {NoneStr} \cup NamespaceValues,
                  pool \in BOOLEAN,
                  addresses \in {None} \cup AddressMaps}

NextPlan ==
    \/ Plan
    \/ Emit

SpecPlan == InitPlan /\ [][NextPlan]_vars

---------------------------------------------------------------------------
(* Vocabulary of the properties *)

Successors(n) == {nodes[n].outgoing_nodes[i] : i \in DOMAIN nodes[n].outgoing_nodes}

RECURSIVE ReachFrom(_, _)
ReachFrom(S, k) ==
    IF k = 0 THEN S ELSE ReachFrom(S \cup UNION {Successors(n) : n \in S}, k - 1)

\* the nodes reachable from n through one or more outgoing edges
Descendants(n) == ReachFrom(Successors(n), Cardinality(DOMAIN nodes))

\* the nodes reachable from an origin
ReachableNodes ==
    ReachFrom({origin_nodes[i] : i \in DOMAIN origin_nodes}, Cardinality(DOMAIN nodes))

\* the send_requests_once calls made on pod n
CallsOf(n) == {k \in DOMAIN calls : calls[k].pod = n}

\* the RPC of node n returned metadata carrying is-error
RpcReturnedError(n) ==
    \E t \in DOMAIN tasks :
        /\ tasks[t].node = n
        /\ tasks[t].call # 0
        /\ tasks[t].pc = "done"
        /\ "is-error" \in tasks[t].result[2]

\* no RPC has returned is-error or raised
EveryRpcSucceeded ==
    \A t \in DOMAIN tasks : tasks[t].pc # "raised" /\ "is-error" \notin tasks[t].result[2]

AllTasksFinished == \A t \in DOMAIN tasks : Finished(t)

PodsOf(rts) == [i \in DOMAIN rts |-> rts[i].pod]

---------------------------------------------------------------------------
(* Properties *)

\* C1 (short-circuit): once the RPC of a node N has returned is-error metadata,
\* send_requests_once has not been called, and is never called, for any node
\* reachable from N through outgoing edges.
ShortCircuit ==
    \A n \in DOMAIN nodes :
        RpcReturnedError(n) => \A d \in Descendants(n) : CallsOf(d) = {}

\* the dispatch over the diamond has run to its end after B returned is-error
ShortCircuitWitness ==
    /\ graph = Diamond
    /\ RpcReturnedError("B")
    /\ CallsOf("C") # {}
    /\ AllTasksFinished

\* C2 (error scenario): in the chain A -> B -> C where B's RPC returns is-error,
\* C's RPC is never invoked, the awaited leaf task resolves to exactly B's
\* response and metadata, and the routes attached by add_routes are those of A
\* and B.
ErrorScenario ==
    (graph = Chain3 /\ RpcReturnedError("B")) =>
        /\ CallsOf("C") = {}
        /\ \A t \in Awaited(1) :
              tasks[t].pc = "done" =>
                  /\ tasks[t].node = "C"
                  /\ \E k \in CallsOf("B") :
                        tasks[t].result = <<Response("B", k), ErrorMetadata>>
        /\ added[1] > 0 => PodsOf(routes[1]) = <<"A", "B">>

ErrorScenarioWitness ==
    /\ graph = Chain3
    /\ dispatched = 1
    /\ RpcReturnedError("B")
    /\ \A t \in Awaited(1) : tasks[t].pc = "done"
    /\ added[1] > 0

\* C3 (exactly-once dispatch): in a dispatch in which every RPC succeeds, no node
\* is called twice, and once every task has finished every node reachable from
\* an origin has been called exactly once; in the diamond D is called with a
\* batch of 2 parts.
ExactlyOnce ==
    (dispatched = 1 /\ EveryRpcSucceeded) =>
        /\ \A n \in DOMAIN nodes : Cardinality(CallsOf(n)) <= 1
        /\ AllTasksFinished => \A n \in ReachableNodes : Cardinality(CallsOf(n)) = 1
        /\ graph = Diamond => \A k \in CallsOf("D") : Len(calls[k].requests) = 2

ExactlyOnceWitness ==
    /\ graph = Diamond
    /\ dispatched = 1
    /\ EveryRpcSucceeded
    /\ AllTasksFinished
    /\ Cardinality(CallsOf("D")) = 1

\* the requests of the k-th call all belong to the dispatch that made the call
OwnParts(k) ==
    \A i \in DOMAIN calls[k].requests :
        LET part == calls[k].requests[i]
        IN IF part.src = "client" THEN part.id = calls[k].rid
           ELSE calls[part.id].rid = calls[k].rid

\* C4 (no state shared between requests), as claimed: every dispatch over the same
\* TopologyGraph object whose RPCs all succeed calls every reachable node exactly
\* once, with a batch made of that request's own parts only.
NoSharedState ==
    \A rid \in DOMAIN leaf_tasks :
        (EveryRpcSucceeded /\ \A t \in DOMAIN tasks : tasks[t].rid = rid => Finished(t)) =>
            \A n \in ReachableNodes :
                /\ Cardinality({k \in CallsOf(n) : calls[k].rid = rid}) = 1
                /\ \A k \in CallsOf(n) : OwnParts(k)

\* the place of a parent in the order the description declares its keys, which
\* is the order in which the edges into one node are declared
DeclaredRank(parent) == CHOOSE i \in DOMAIN KeyOrder : KeyOrder[i] = parent

\* the parts of a batch that are responses of parent nodes
ParentResponses(batch) == {i \in DOMAIN batch : batch[i].src # "client"}

\* C5 (fan-in order), as claimed: the batch given to a node's RPC lists the
\* parents' responses in the order in which the incoming edges were declared,
\* whatever order the parent RPCs complete in.
FanInOrder ==
    \A k \in DOMAIN calls :
        \A i, j \in ParentResponses(calls[k].requests) :
            i < j => DeclaredRank(calls[k].requests[i].src) < DeclaredRank(calls[k].requests[j].src)

\* C6 (timing monotonicity): for every edge parent -> child whose two nodes have
\* started, the parent's RPC has returned and parent.end_time <= child.start_time.
TimingMonotonicity ==
    \A p \in DOMAIN nodes :
        \A c \in Successors(p) :
            (nodes[p].start_time # NoTime /\ nodes[c].start_time # NoTime) =>
                /\ nodes[p].end_time # NoTime
                /\ nodes[p].end_time <= nodes[c].start_time

\* the join of the diamond has started, at the very clock value at which the
\* later of its parents returned
TimingMonotonicityWitness ==
    /\ graph = Diamond
    /\ nodes["D"].start_time # NoTime
    /\ nodes["B"].end_time < nodes["C"].end_time
    /\ nodes["C"].end_time = nodes["D"].start_time

\* the entries of a route list for pod n
EntriesFor(rts, n) == {i \in DOMAIN rts : rts[i].pod = n}

\* C7 (trace completeness): when add_routes is applied in a dispatch in which
\* every RPC succeeded (the awaited leaf tasks having completed), it leaves the
\* response with one route entry for every node whose RPC was invoked.
TraceComplete ==
    [][\A rid \in DOMAIN added :
          (added'[rid] > added[rid] /\ EveryRpcSucceeded) =>
              \A n \in DOMAIN nodes :
                  (\E k \in CallsOf(n) : calls[k].rid = rid) =>
                      Cardinality(EntriesFor(routes'[rid], n)) = 1]_vars

\* add_routes has been applied while the hanging node's RPC was in flight
TraceCompleteWitness ==
    /\ graph = HangJoin
    /\ dispatched = 1
    /\ EveryRpcSucceeded
    /\ added[1] > 0
    /\ Len(routes[1]) = 5
    /\ \E i \in DOMAIN routes[1] : routes[1][i].pod = "I" /\ routes[1][i].end_time = NoTime

\* C8 (route uniqueness): a response carries at most one route entry per pod
\* name, and none for a node whose start_time was never set.
RouteUniqueness ==
    \A rid \in DOMAIN routes :
        /\ \A n \in DOMAIN nodes : Cardinality(EntriesFor(routes[rid], n)) <= 1
        /\ \A i \in DOMAIN routes[rid] : nodes[routes[rid][i].pod].start_time # NoTime

\* add_routes applied twice on the diamond, whose join is reached through two
\* paths; C returned is-error, so that D never started
RouteUniquenessWitness ==
    /\ graph = Diamond
    /\ dispatched = 1
    /\ added[1] >= 2
    /\ RpcReturnedError("C")
    /\ nodes["D"].start_time = NoTime
    /\ PodsOf(routes[1]) = <<"A", "B", "C">>

\* the state of the nodes, had the RPC of every hanging node not finished yet
HangingUnfinished(nd) ==
    [n \in DOMAIN nd |->
        IF nd[n].hanging THEN [nd[n] EXCEPT !.end_time = NoTime, !.status = NoStatus]
        ELSE nd[n]]

\* what the client sees of dispatch rid: the results of the awaited leaf tasks
\* and the route trace add_routes attaches
ClientVisible(rid, nd) ==
    <<[t \in Awaited(rid) |-> tasks[t].result], add_routes(nd, origin_nodes, 1, << >>)>>

\* C9 (hanging isolation), as claimed: the awaited results and the route trace
\* are the same whether the RPC of a hanging node succeeded, returned is-error
\* or has not finished.
HangingIsolation ==
    \A rid \in DOMAIN leaf_tasks :
        (\A t \in Awaited(rid) : tasks[t].pc = "done") =>
            ClientVisible(rid, nodes) = ClientVisible(rid, HangingUnfinished(nodes))

\* the number of times n is named in a list
Occurrences(seq, n) == Cardinality({i \in DOMAIN seq : seq[i] = n})

RECURSIVE OccurrencesUnder(_, _, _)
OccurrencesUnder(keys, g, n) ==
    IF keys = {} THEN 0
    ELSE LET k == CHOOSE x \in keys : TRUE
         IN Occurrences(g[k], n) + OccurrencesUnder(keys \ {k}, g, n)

\* the predecessors of n other than start-gateway
Predecessors(g, n) == {k \in DOMAIN g \ {START} : Occurrences(g[k], n) > 0}

\* C10, as claimed: number_of_parts is the number of predecessors other than
\* start-gateway when that number is greater than 0, and 1 otherwise.
NumberOfPartsWithoutStartGateway ==
    \A n \in DOMAIN nodes :
        nodes[n].number_of_parts =
            IF Cardinality(Predecessors(graph, n)) > 0
            THEN Cardinality(Predecessors(graph, n)) ELSE 1

\* C10, amended: number_of_parts is the number of entries naming the node in the
\* outgoing lists of the description, the list of start-gateway included, when
\* that number is greater than 0, and 1 otherwise.
NumberOfPartsCountsStartGateway ==
    \A n \in DOMAIN nodes :
        nodes[n].number_of_parts =
            IF OccurrencesUnder(DOMAIN graph, graph, n) > 0
            THEN OccurrencesUnder(DOMAIN graph, graph, n) ELSE 1

\* a node named by start-gateway and by a pod has been invoked, with two parts
NumberOfPartsWitness ==
    /\ graph = OriginAndSuccessor
    /\ nodes["B"].number_of_parts = 2
    /\ \E k \in CallsOf("B") : Len(calls[k].requests) = 2

\* the parts of the k-th call, as a set
PartsOf(k) == {calls[k].requests[i] : i \in DOMAIN calls[k].requests}

\* C11 (origin and successor): where B is listed under start-gateway and under A,
\* B is called at most once per request, every call of B carries exactly two
\* parts, the client's request and A's response, and once every task of a
\* dispatch without error has finished B has been called exactly once.
OriginAndSuccessorBatch ==
    graph = OriginAndSuccessor =>
        /\ \A k \in CallsOf("B") :
              /\ Len(calls[k].requests) = 2
              /\ ClientRequest(calls[k].rid) \in PartsOf(k)
              /\ \E a \in CallsOf("A") :
                    /\ calls[a].rid = calls[k].rid
                    /\ Response("A", a) \in PartsOf(k)
        /\ \A j, k \in CallsOf("B") : calls[j].rid = calls[k].rid => j = k
        /\ (dispatched = 1 /\ EveryRpcSucceeded /\ AllTasksFinished) =>
              Cardinality(CallsOf("B")) = 1

\* B has been called once, after A returned, and every task has finished
OriginAndSuccessorWitness ==
    /\ graph = OriginAndSuccessor
    /\ dispatched = 1
    /\ EveryRpcSucceeded
    /\ AllTasksFinished
    /\ \E k \in CallsOf("B") : calls[k].requests[2] = Response("A", 1)

\* n is a terminal of the description g: its outgoing list names end-gateway
Terminal(g, n) == n \in DOMAIN g /\ \E i \in DOMAIN g[n] : g[n][i] = END

\* C12 (hanging flag), as claimed: a node of the TopologyGraph is hanging if and
\* only if it has no outgoing edges and is not a terminal.
HangingIffNoOutgoingAndNotTerminal ==
    \A n \in DOMAIN nodes :
        nodes[n].hanging <=> (Successors(n) = {} /\ ~Terminal(graph, n))

\* task t has run after its previous_task returned no response and no error
ParentResolvedToNone(t) ==
    /\ tasks[t].previous_task # 0
    /\ tasks[tasks[t].previous_task].pc = "done"
    /\ tasks[tasks[t].previous_task].result = <<None, NoMetadata>>
    /\ tasks[t].pc # "pending"

\* C13 (merge mismatch), as claimed: a task whose parent task resolved to no
\* response resolves to a result whose metadata carry is-error.
MergeMismatchIsError ==
    \A t \in DOMAIN tasks :
        ParentResolvedToNone(t) =>
            (tasks[t].pc = "done" /\ "is-error" \in tasks[t].result[2])

\* C13, amended: a task whose parent task resolved to no response (and no
\* error) adds no part to its node, makes no RPC and resolves to the empty result
\* (None, {}) itself.
MergeMismatchIsSilent ==
    \A t \in DOMAIN tasks :
        ParentResolvedToNone(t) =>
            /\ tasks[t].pc = "done"
            /\ tasks[t].call = 0
            /\ tasks[t].result = <<None, NoMetadata>>
            /\ \A i \in DOMAIN nodes[tasks[t].node].parts_to_send :
                  nodes[tasks[t].node].parts_to_send[i] # None

\* below the join C, the task of D on the path that reached C first has
\* resolved to the empty result, and D has been called on the other path
MergeMismatchWitness ==
    /\ graph = JoinChain
    /\ AllTasksFinished
    /\ CallsOf("D") # {}
    /\ \E t \in DOMAIN tasks : tasks[t].node = "D" /\ ParentResolvedToNone(t)

\* the error results that tasks of node n have taken over from a parent
PropagatedErrors(n) ==
    {tasks[t].result : t \in {u \in DOMAIN tasks : /\ tasks[u].node = n
                                                   /\ tasks[u].pc = "done"
                                                   /\ tasks[u].call = 0
                                                   /\ "is-error" \in tasks[u].result[2]}}

\* C14 (first error wins), as claimed: of the errors that the parents of a node
\* return in one dispatch, the tasks of the node pass on one only, to the
\* successors and to the leaf results.
FirstErrorWins ==
    dispatched = 1 => \A n \in DOMAIN nodes : Cardinality(PropagatedErrors(n)) <= 1

\* the tasks that t awaits, directly or through the tasks it awaits
RECURSIVE AwaitedBy(_)
AwaitedBy(t) ==
    IF tasks[t].previous_task = 0 THEN {}
    ELSE {tasks[t].previous_task} \cup AwaitedBy(tasks[t].previous_task)

\* C15 (cancellation propagates downstream): a task that awaits, directly or
\* transitively, a task that has been cancelled makes no RPC, and when it ends it
\* ends cancelled.
CancellationPropagates ==
    \A t \in DOMAIN tasks :
        (\E a \in AwaitedBy(t) : tasks[a].pc = "cancelled") =>
            /\ tasks[t].call = 0
            /\ tasks[t].pc \in {"pending", "cancelled"}

\* in the diamond B's task has been cancelled during its RPC: the task of D that
\* awaited it has ended cancelled, and everything else has finished
CancellationPropagatesWitness ==
    /\ graph = Diamond
    /\ AllTasksFinished
    /\ \E b, d \in DOMAIN tasks :
          /\ tasks[b].node = "B" /\ tasks[b].pc = "cancelled" /\ tasks[b].call # 0
          /\ tasks[d].node = "D" /\ tasks[d].previous_task = b
          /\ tasks[d].pc = "cancelled"
    /\ \E c \in DOMAIN tasks : tasks[c].node = "C" /\ tasks[c].pc = "done"

\* the operations applied so far
Applied == SubSeq(program, 1, op_count)

\* the flow that the operations ops, from the i-th on, make of f
RECURSIVE Replay(_, _, _)
Replay(ops, i, f) == IF i > Len(ops) THEN f ELSE Replay(ops, i + 1, ApplyOp(f, ops[i]))

\* the pods that the description g lists after n
GraphSuccessors(g, n) ==
    IF n \in DOMAIN g THEN {g[n][i] : i \in DOMAIN g[n]} \ {END} ELSE {}

RECURSIVE GraphReach(_, _, _)
GraphReach(g, S, k) ==
    IF k = 0 THEN S
    ELSE GraphReach(g, S \cup UNION {GraphSuccessors(g, n) : n \in S}, k - 1)

\* no node of the description g is reached from itself
Acyclic(g) ==
    \A n \in DOMAIN g : n \notin GraphReach(g, GraphSuccessors(g, n), Cardinality(DOMAIN g))

\* C16 (acyclicity): whatever operations have been applied, refused ones
\* included, the graph description of the flow has no cycle, and neither has the
\* TopologyGraph built from it.
Acyclicity ==
    /\ Acyclic(GraphRepresentation(flow))
    /\ built => (Acyclic(graph) /\ \A n \in DOMAIN nodes : n \notin Descendants(n))

\* the flow of test_flow_needs_all, with its two joins, has been built
AcyclicityWitness ==
    /\ built
    /\ program = test_flow_needs_all
    /\ Cardinality(DOMAIN nodes) = 6
    /\ "p4" \in Descendants("p1")

\* the names of f that no pod of f needs
NoSuccessor(f) ==
    {n \in AllNames(f) : \A i \in DOMAIN f.pod_nodes : n \notin f.pod_nodes[i].needs}

\* the needs of the pod of f named name
PodNeeds(f, name) ==
    UNION {f.pod_nodes[i].needs : i \in {j \in DOMAIN f.pod_nodes : f.pod_nodes[j].name = name}}

\* a needs_all is being applied
NeedsAllStep == op_count' = op_count + 1 /\ program[op_count'].op = "needs_all"

\* the explicit form of the first three operations of test_flow_equalities
ExplicitJoiner ==
    <<AddOp("executor0", {}), AddOp("executor1", {GATEWAY}),
      AddOp("joiner", {"executor0", "executor1"})>>

\* C17 (needs_all): needs_all(name) adds one pod, whose needs are the names that
\* had no successor before the call, and gives the flow that add(name, needs=those
\* names) gives; no operation changes a pod already in the flow; in
\* test_flow_needs_all r2 needs p3 and r1, before and after p4 is added, and in
\* test_flow_equalities the flow is the one of the explicit add of joiner.
NeedsAllJoinsLeaves ==
    [][/\ NeedsAllStep =>
            /\ flow'.error = "none"
            /\ Len(flow'.pod_nodes) = Len(flow.pod_nodes) + 1
            /\ flow'.pod_nodes[Len(flow'.pod_nodes)].needs = NoSuccessor(flow)
            /\ flow' = add(flow, program[op_count'].name, NoSuccessor(flow))
       /\ \A i \in DOMAIN flow.pod_nodes :
            i \in DOMAIN flow'.pod_nodes /\ flow'.pod_nodes[i] = flow.pod_nodes[i]
       /\ (program = test_flow_needs_all /\ op_count' >= 5) =>
            PodNeeds(flow', "r2") = {"p3", "r1"}
       /\ (program = test_flow_needs_all /\ op_count' = 6) =>
            PodNeeds(flow', "p4") = {"r2"}
       /\ (program = test_flow_equalities /\ op_count' = 3) =>
            flow' = Replay(ExplicitJoiner, 1, EmptyFlow(flow.inspect))
      ]_vars

\* test_flow_needs_all has been applied to its end
NeedsAllJoinsLeavesWitness ==
    /\ program = test_flow_needs_all
    /\ op_count = 6
    /\ PodNeeds(flow, "r2") = {"p3", "r1"}
    /\ PodNeeds(flow, "p4") = {"r2"}

\* an add is being applied whose name is in use and whose needs are nodes of the
\* flow
AddOfUsedName ==
    /\ op_count' = op_count + 1
    /\ program[op_count'].op = "add"
    /\ program[op_count'].name \in PodNames(flow)
    /\ program[op_count'].needs \subseteq AllNames(flow)

WithoutInspect(ops) == SelectSeq(ops, LAMBDA o : o.op # "inspect")

\* the same flow built without the inspectors
FlowWithoutInspect == Replay(WithoutInspect(Applied), 1, EmptyFlow("HANG"))

\* the names given to the inspect calls applied so far
Inspectors == {Applied[i].name : i \in {j \in DOMAIN Applied : Applied[j].op = "inspect"}}

\* the pods of the description g that feed end-gateway
TerminalsOf(g) == {n \in DOMAIN g \ {START} : Terminal(g, n)}

\* the nodes whose tasks the gateway awaits for dispatch rid
AwaitedNodes(rid) == {tasks[t].node : t \in Awaited(rid)}

\* C19 (inspect HANG), as claimed: under HANG no task of an inspector is
\* awaited, every inspector has been called once when a dispatch without error
\* has finished, and the response comes from the tasks of the same nodes as in
\* the flow built without the inspectors, its terminals.
InspectHang ==
    (flow.inspect = "HANG" /\ built /\ dispatched = 1) =>
        /\ \A t \in Awaited(1) : tasks[t].node \notin Inspectors
        /\ (AllTasksFinished /\ EveryRpcSucceeded) =>
              \A i \in Inspectors : Cardinality(CallsOf(i)) = 1
        /\ AwaitedNodes(1) = TerminalsOf(GraphRepresentation(FlowWithoutInspect))

\* C20 (inspect REMOVE): under REMOVE the flow holds no inspector and is the
\* flow built without the inspect calls; so is the graph description built from
\* it, no inspector is a node of the TopologyGraph and no RPC is made on one.
InspectRemove ==
    flow.inspect = "REMOVE" =>
        /\ \A i \in DOMAIN flow.pod_nodes : flow.pod_nodes[i].role # "inspect"
        /\ flow.pod_nodes = FlowWithoutInspect.pod_nodes
        /\ built =>
              /\ graph = GraphRepresentation(FlowWithoutInspect)
              /\ \A i \in Inspectors : i \notin DOMAIN nodes /\ CallsOf(i) = {}
              /\ \A k \in DOMAIN calls : calls[k].pod \notin Inspectors

\* test_flow4 under REMOVE: the request has gone through p1 and p2
InspectRemoveWitness ==
    /\ flow.inspect = "REMOVE"
    /\ program = test_flow4
    /\ built
    /\ dispatched = 1
    /\ AllTasksFinished
    /\ Inspectors = {"i1"}
    /\ CallsOf("p2") # {}

\* the response resp comes from pod i, or from a call one of whose parts does
RECURSIVE ReflectsOutputOf(_, _)
ReflectsOutputOf(resp, i) ==
    /\ resp.src \notin {"None", "client"}
    /\ \/ resp.src = i
       \/ \E j \in DOMAIN calls[resp.id].requests :
             ReflectsOutputOf(calls[resp.id].requests[j], i)

\* the indices of the inspectors among the pods of the flow
InspectorPods == {i \in DOMAIN flow.pod_nodes : flow.pod_nodes[i].role = "inspect"}

\* C21 (inspect COLLECT): under COLLECT every inspect call adds its inspector;
\* the pod added next needs it, and an inspector that no pod needs feeds
\* end-gateway; once the response of a dispatch without error is produced, the
\* RPC of every inspector has returned and the awaited results that carry a
\* response, of which there is one at least, reflect the output of every
\* inspector.
InspectCollect ==
    flow.inspect = "COLLECT" =>
        /\ Inspectors = {flow.pod_nodes[i].name : i \in InspectorPods}
        /\ \A i \in InspectorPods :
              IF i < Len(flow.pod_nodes)
              THEN flow.pod_nodes[i].name \in flow.pod_nodes[i + 1].needs
              ELSE Terminal(GraphRepresentation(flow), flow.pod_nodes[i].name)
        /\ (built /\ dispatched = 1 /\ added[1] > 0 /\ EveryRpcSucceeded) =>
              \A i \in Inspectors :
                  /\ \E k \in CallsOf(i) : calls[k].returned
                  /\ \E t \in Awaited(1) : ReflectsOutputOf(tasks[t].result[1], i)
                  /\ \A t \in Awaited(1) :
                        tasks[t].result[1] # None =>
                            ReflectsOutputOf(tasks[t].result[1], i)

\* test_flow4 under COLLECT: the response has been produced, from p2's answer
\* to a batch holding the inspector's response
InspectCollectWitness ==
    /\ flow.inspect = "COLLECT"
    /\ program = test_flow4
    /\ built
    /\ dispatched = 1
    /\ added[1] > 0
    /\ EveryRpcSucceeded
    /\ \E k \in CallsOf("p2") : \E a \in CallsOf("i1") : Response("i1", a) \in PartsOf(k)

\* ---- C22 ----
\* the polling argument's own entry for the endpoint, its '*' entry otherwise
GivenEntry(r) ==
    IF r.endpoint \in DOMAIN head.polling
    THEN head.polling[r.endpoint]
    ELSE head.polling[Wildcard]

InvokedShards(r) == {s \in Shards : r.invoked[s] > 0}

\* C22 as stated: the policy a head uses for a request on an endpoint is the
\* polling map's entry for that endpoint if there is one, and its '*' entry
\* otherwise.  Refuted by test_flow_default_polling_endpoints: with '*' -> ALL
\* and no entry for '/index', a request on '/index' is answered by one shard.
PolicyIsEntryOrWildcard ==
    \A r \in DOMAIN head.requests :
        head.requests[r].policy = GivenEntry(head.requests[r])

\* C22 amended: the policy is the polling argument's entry for the endpoint if
\* it has one; otherwise ANY for '/index', ALL for '/search' and the '*' entry
\* for any other endpoint.  Under ALL the head's response is made once every
\* one of the k shards has been invoked exactly once and merges their results;
\* under ANY exactly one shard has been invoked, once (each shard adding one
\* document to the one sent: 1 + k documents under ALL, 2 under ANY, so 3 and
\* 2 with two shards).
PollingPolicy ==
    \A i \in DOMAIN head.requests :
        LET r == head.requests[i]
        IN  /\ r.policy = IF r.endpoint \in DOMAIN head.polling
                          THEN head.polling[r.endpoint]
                          ELSE IF r.endpoint = "/index" THEN ANY
                          ELSE IF r.endpoint = "/search" THEN ALL
                          ELSE head.polling[Wildcard]
            /\ \A s \in Shards : r.invoked[s] <= 1
            /\ r.done =>
                  /\ r.policy = ALL =>
                        /\ InvokedShards(r) = Shards
                        /\ r.docs = DocsIn + head.shards * DocsAdded
                        /\ head.shards = 2 => r.docs = 3
                  /\ r.policy = ANY =>
                        /\ Cardinality(InvokedShards(r)) = 1
                        /\ r.docs = DocsIn + DocsAdded
                        /\ r.docs = 2

\* two shards, '*' -> ALL: a request on '/index' answered with 2 documents and
\* one on '/custom' answered with 3
PollingPolicyWitness ==
    /\ head.shards = 2
    /\ head.polling = PollingOf(ALL)
    /\ \E i, j \in DOMAIN head.requests :
          /\ head.requests[i].endpoint = "/index"
          /\ head.requests[i].done /\ head.requests[i].docs = 2
          /\ head.requests[j].endpoint = "/custom"
          /\ head.requests[j].done /\ head.requests[j].docs = 3

\* ---- C23 ----
\* what holds of a signalled runtime at every moment: nothing is accepted after
\* the signal, close() is called at most once and only by an executor runtime,
\* and when it has been called, every accepted request was completed and
\* close() saw them all, those completed before the signal included; the
\* process has exited only after that
ShutdownIsGraceful ==
    /\ runtime.closes <= 1
    /\ runtime.closes = 1 =>
          /\ runtime.kind = "executor"
          /\ runtime.signal \in Signals
          /\ runtime.request_count = runtime.accepted
          /\ runtime.seen_by_close = runtime.accepted
          /\ runtime.seen_by_close >= runtime.completed_at_signal
    /\ runtime.state = "exited" =>
          /\ runtime.signal \in Signals
          /\ runtime.request_count = runtime.accepted
          /\ runtime.kind = "executor" => runtime.closes = 1

StartBarrier ==
    start.bad # {} =>
        /\ start.state # "running"
        /\ (~ENABLED NextStart) => start.state = "failed"
        /\ start.state \in {"aborting", "failed"} =>
              /\ start.error = RuntimeFailToStart
              /\ \E k \in 0 .. Len(start.started) :
                    start.terminated = SubSeq(Reverse(start.started), 1, k)
        /\ start.state = "failed" =>
              start.terminated = Reverse(start.started)

\* a bad pod at second, a correct pod at last: three pods were started and the
\* start failed after ending them 3, 2, 1
StartBarrierWitness ==
    /\ start.pods = 1 .. 3
    /\ start.bad = {2}
    /\ start.state = "failed"
    /\ start.started = <<1, 2, 3>>
    /\ start.terminated = <<3, 2, 1>>

\* ---- C25 ----
Planned == k8s.config # None

\* C25: for a pod whose name is not 'gateway' K8sPodConfig holds exactly one
\* head deployment, of one replica and with port_in = K8S_PORT_IN, and
\* to_k8s_yaml emits it first, ahead of the pod's worker deployments; for the
\* gateway pod there is no head deployment and to_k8s_yaml returns exactly one
\* entry, named 'gateway'.
HeadRule ==
    Planned =>
        LET config == k8s.config
        IN  IF k8s.args.name # gateway
            THEN /\ config.head_deployment # None
                 /\ config.head_deployment.pea_type = HEAD
                 /\ config.head_deployment.num_replicas = 1
                 /\ config.head_deployment.deployment_args.port_in = K8S_PORT_IN
                 /\ \A k \in DOMAIN config.worker_deployments :
                       config.worker_deployments[k].pea_type # HEAD
                 /\ k8s.emitted =>
                       /\ Len(k8s.yamls) = 1 + Len(config.worker_deployments)
                       /\ k8s.yamls[1][1] = config.head_deployment.dns_name
                       /\ k8s.yamls[1][2].pea_type = HEAD
                       /\ k8s.yamls[1][2].replicas = 1
                       /\ k8s.yamls[1][2].port_in = K8S_PORT_IN
                       /\ \A k \in 2 .. Len(k8s.yamls) :
                             /\ k8s.yamls[k][2].pea_type = WORKER
                             /\ k8s.yamls[k][1] = config.worker_deployments[k - 1].dns_name
            ELSE /\ config.head_deployment = None
                 /\ k8s.emitted =>
                       /\ Len(k8s.yamls) = 1
                       /\ k8s.yamls[1][1] = gateway

\* a pod of two shards and two replicas has emitted its head, of one replica,
\* and then its two workers
HeadRuleWitness ==
    /\ k8s.emitted
    /\ k8s.args.name # gateway
    /\ k8s.args.shards = 2
    /\ k8s.args.replicas = 2
    /\ Len(k8s.yamls) = 3
    /\ k8s.yamls[1][2].pea_type = HEAD

\* ---- C26 ----
\* name lowercased, with every '/' and '_' replaced by '-'
IsDnsNameOf(dns, name) ==
    /\ Len(dns) = Len(name)
    /\ \A j \in DOMAIN name :
          dns[j] = IF name[j] \in {"/", "_"} THEN "-"
                   ELSE IF name[j] \in UpperCase THEN lower(name[j])
                   ELSE name[j]

\* C26: a pod with shards = k has exactly k worker deployments, with shard ids
\* 0 .. k-1, named '{name}-{i}' when k > 1 and '{name}' when k = 1, each with a
\* DNS name that is its name lowercased with every '/' and '_' replaced by '-'.
WorkerRule ==
    Planned =>
        LET workers == k8s.config.worker_deployments
            k == k8s.args.shards
        IN  /\ Len(workers) = k
            /\ \A i \in 0 .. k - 1 :
                  /\ workers[i + 1].shard_id = i
                  /\ workers[i + 1].pea_type # HEAD
                  /\ workers[i + 1].name =
                        IF k > 1 THEN k8s.args.name \o <<"-">> \o Str(i)
                        ELSE k8s.args.name
                  /\ IsDnsNameOf(workers[i + 1].dns_name, workers[i + 1].name)
                  /\ \A j \in DOMAIN workers[i + 1].dns_name :
                        workers[i + 1].dns_name[j] \notin {"/", "_"} \cup UpperCase

\* the pod 'a/B' with two shards: its second worker is 'a/B-1', DNS name 'a-b-1'
WorkerRuleWitness ==
    /\ Planned
    /\ k8s.args.name = <<"a", "/", "B">>
    /\ k8s.args.shards = 2
    /\ k8s.config.worker_deployments[2].name = <<"a", "/", "B", "-", "1">>
    /\ k8s.config.worker_deployments[2].dns_name = <<"a", "-", "b", "-", "1">>

\* ---- C27 ----
Declares(uses) == uses # NoneStr

\* a sidecar container for uses_before / uses_after in an emitted deployment
HasSidecarBefore(yaml) ==
    yaml.image_uses_before # NoneStr /\ yaml.args_uses_before # None
        /\ yaml.template \in {"deployment-uses-before", "deployment-uses-before-after"}

HasSidecarAfter(yaml) ==
    yaml.image_uses_after # NoneStr /\ yaml.args_uses_after # None
        /\ yaml.template \in {"deployment-uses-after", "deployment-uses-before-after"}

NoSidecar(yaml) ==
    /\ yaml.image_uses_before = NoneStr /\ yaml.args_uses_before = None
    /\ yaml.image_uses_after = NoneStr /\ yaml.args_uses_after = None
    /\ yaml.template = "deployment"

\* C27: for every pod, the args of each worker deployment have uses_before and
\* uses_after cleared and its manifest has no sidecar container; the head
\* gets uses_before_address = 127.0.0.1:K8S_PORT_USES_BEFORE and a uses_before
\* sidecar container exactly when the pod declares uses_before, and likewise
\* uses_after_address on K8S_PORT_USES_AFTER and a uses_after sidecar exactly
\* when it declares uses_after.
SidecarsOnHeadOnly ==
    Planned =>
        LET config == k8s.config
            workers == config.worker_deployments
            n == Len(k8s.yamls)
        IN  /\ \A k \in DOMAIN workers :
                  /\ workers[k].deployment_args.uses_before = NoneStr
                  /\ workers[k].deployment_args.uses_after = NoneStr
            /\ k8s.emitted =>
                  \A k \in 1 .. Len(workers) : NoSidecar(k8s.yamls[n - Len(workers) + k][2])
            /\ config.head_deployment # None =>
                  /\ config.head_deployment.deployment_args.uses_before_address =
                        IF Declares(k8s.args.uses_before)
                        THEN <<"1", "2", "7", ".", "0", ".", "0", ".", "1", ":">>
                                \o Str(K8S_PORT_USES_BEFORE)
                        ELSE NoneStr
                  /\ config.head_deployment.deployment_args.uses_after_address =
                        IF Declares(k8s.args.uses_after)
                        THEN <<"1", "2", "7", ".", "0", ".", "0", ".", "1", ":">>
                                \o Str(K8S_PORT_USES_AFTER)
                        ELSE NoneStr
                  /\ k8s.emitted =>
                        /\ HasSidecarBefore(k8s.yamls[1][2]) <=> Declares(k8s.args.uses_before)
                        /\ HasSidecarAfter(k8s.yamls[1][2]) <=> Declares(k8s.args.uses_after)
                        /\ k8s.yamls[1][2].image_uses_before # NoneStr
                              <=> Declares(k8s.args.uses_before)
                        /\ k8s.yamls[1][2].image_uses_after # NoneStr
                              <=> Declares(k8s.args.uses_after)

\* a pod of two shards declaring uses_before only: its head was emitted with the
\* uses_before sidecar alone, and its workers with none
SidecarsOnHeadOnlyWitness ==
    /\ k8s.emitted
    /\ k8s.args.shards = 2
    /\ Declares(k8s.args.uses_before)
    /\ ~Declares(k8s.args.uses_after)
    /\ k8s.yamls[1][2].template = "deployment-uses-before"
    /\ k8s.yamls[1][2].args_uses_before.port_in = K8S_PORT_USES_BEFORE
    /\ NoSidecar(k8s.yamls[2][2])
    /\ NoSidecar(k8s.yamls[3][2])

\* ---- C28 ----
\* '{dns}.{namespace}:{port}'
PlainAddress(dns, namespace) ==
    dns \o <<".">> \o namespace \o <<":">> \o Str(K8S_PORT_IN)

\* the DNS name of shard i of the pod
ShardDns(i) ==
    IF k8s.args.shards > 1
    THEN to_dns_name(k8s.args.name) \o <<"-">> \o Str(i)
    ELSE to_dns_name(k8s.args.name)

HeadConnectionList == k8s.config.head_deployment.deployment_args.connection_list

\* C28 as stated: with the connection pool disabled, the head's connection_list
\* is a JSON mapping with one entry per shard index 0 .. shards-1, each of the
\* form '{dns}.{namespace}:{port}'.  Refuted: the host ends in '.svc'.
ConnectionListPlainAddresses ==
    (Planned /\ k8s.config.head_deployment # None /\ ~k8s.k8s_connection_pool) =>
        /\ HeadConnectionList # None
        /\ Len(HeadConnectionList.json) = k8s.args.shards
        /\ \A i \in 0 .. k8s.args.shards - 1 :
              /\ HeadConnectionList.json[i + 1][1] = Str(i)
              /\ HeadConnectionList.json[i + 1][2] =
                    PlainAddress(ShardDns(i), Format(k8s.k8s_namespace))

\* C28 amended: with the connection pool disabled, the head's connection_list
\* is a JSON mapping with one entry per shard index 0 .. shards-1, each of the
\* form '{dns}.{namespace}.svc:{port}', where dns is the DNS name of that
\* shard's worker deployment, namespace is the k8s_namespace the planner was
\* given (None printing as 'None') and port is K8S_PORT_IN; with the pool
\* enabled the planner writes no connection_list.
ConnectionListSvcAddresses ==
    (Planned /\ k8s.config.head_deployment # None) =>
        IF k8s.k8s_connection_pool
        THEN HeadConnectionList = k8s.args.connection_list
        ELSE /\ HeadConnectionList # None
             /\ Len(HeadConnectionList.json) = k8s.args.shards
             /\ \A i \in 0 .. k8s.args.shards - 1 :
                   /\ HeadConnectionList.json[i + 1][1] = Str(i)
                   /\ HeadConnectionList.json[i + 1][2] =
                         k8s.config.worker_deployments[i + 1].dns_name
                            \o <<".">> \o Format(k8s.k8s_namespace)
                            \o <<".", "s", "v", "c", ":">> \o Str(K8S_PORT_IN)

\* the pod 'E_x' with two shards in namespace 'ns', pool disabled: entry '1' of
\* the head's connection_list is 'e-x-1.ns.svc:8081'
ConnectionListWitness ==
    /\ Planned
    /\ ~k8s.k8s_connection_pool
    /\ k8s.args.name = <<"E", "_", "x">>
    /\ k8s.args.shards = 2
    /\ k8s.k8s_namespace = <<"n", "s">>
    /\ HeadConnectionList.json[2] =
          <<<<"1">>, <<"e", "-", "x", "-", "1", ".", "n", "s", ".", "s", "v", "c", ":",
                       "8", "0", "8", "1">>>>

\* ---- C29 ----
\* every deployment of the planned pod, head included
Deployments ==
    (IF k8s.config.head_deployment # None THEN {k8s.config.head_deployment} ELSE {})
        \cup {k8s.config.worker_deployments[k] : k \in DOMAIN k8s.config.worker_deployments}

\* C29: with the connection pool enabled, the pod-address map handed to every
\* deployment of the pod, and injected into the gateway as pods_addresses, is
\* empty (it is None), whatever map the caller passed; with the pool disabled
\* the caller's map is passed through unchanged.
PodAddressMap ==
    Planned =>
        LET expected == IF k8s.k8s_connection_pool THEN None ELSE k8s.k8s_pod_addresses
        IN  /\ k8s.config.k8s_pod_addresses = expected
            /\ \A d \in Deployments : d.k8s_pod_addresses = expected
            /\ (k8s.emitted /\ k8s.args.name = gateway) =>
                  k8s.yamls[1][2].pods_addresses = expected

\* the gateway planned with the pool enabled and a map of one address: its
\* manifest was emitted with no pods_addresses
PodAddressMapWitness ==
    /\ k8s.emitted
    /\ k8s.args.name = gateway
    /\ k8s.k8s_connection_pool
    /\ k8s.k8s_pod_addresses # None
    /\ k8s.k8s_pod_addresses.items # << >>
    /\ k8s.yamls[1][2].pods_addresses = None

\* ---- C30 ----
\* the endpoint of the request of dispatch rid
EndpointOf(rid) == {tasks[t].endpoint : t \in {u \in DOMAIN tasks : tasks[u].rid = rid}}

\* C30: the engine never fans out and never invokes a node early.  In every
\* step, a send_requests_once call is made only by the step in which the
\* number_of_parts-th part of its node arrives, and never while fewer parts are
\* there; the call has head = True, the endpoint of the request and the entire
\* list of the node's collected parts; and no node has more than one call.
SingleCallWithAllParts ==
    [][ /\ Len(calls') \in {Len(calls), Len(calls) + 1}
        /\ \A k \in DOMAIN calls : calls'[k].requests = calls[k].requests
        /\ Len(calls') = Len(calls) + 1 =>
              LET call == calls'[Len(calls')]
                  n == call.pod
              IN  /\ call.head = TRUE
                  /\ EndpointOf(call.rid) = {call.endpoint}
                  /\ Len(nodes[n].parts_to_send) = nodes[n].number_of_parts - 1
                  /\ Len(nodes'[n].parts_to_send) = nodes[n].number_of_parts
                  /\ call.requests = nodes'[n].parts_to_send
        /\ \A n \in DOMAIN nodes' :
              /\ Cardinality({k \in DOMAIN calls' : calls'[k].pod = n}) <= 1
              /\ Len(nodes'[n].parts_to_send) < nodes'[n].number_of_parts =>
                    {k \in DOMAIN calls' : calls'[k].pod = n} = {}
      ]_vars

\* in the diamond, D holds one of its two parts and has not been called, while
\* B and C have each been called once
SingleCallWithAllPartsWitness ==
    /\ graph = Diamond
    /\ dispatched = 1
    /\ Len(nodes["D"].parts_to_send) = 1
    /\ CallsOf("D") = {}
    /\ Cardinality(CallsOf("B")) = 1
    /\ Cardinality(CallsOf("C")) = 1

\* ---- C31 ----
RECURSIVE PathsFrom(_), PathsThrough(_, _)

\* the paths from node n to a node without outgoing nodes, depth first in the
\* order of outgoing_nodes
PathsFrom(n) ==
    IF nodes[n].outgoing_nodes = << >>
    THEN << <<n>> >>
    ELSE PathsThrough(n, 1)

\* those through the i-th outgoing node of n and the ones after it
PathsThrough(n, i) ==
    IF i > Len(nodes[n].outgoing_nodes) THEN << >>
    ELSE LET below == PathsFrom(nodes[n].outgoing_nodes[i])
         IN  [k \in DOMAIN below |-> <<n>> \o below[k]] \o PathsThrough(n, i + 1)

RECURSIVE OriginPaths(_)
\* the paths from the i-th origin and the ones after it, origin by origin
OriginPaths(i) ==
    IF i > Len(origin_nodes) THEN << >>
    ELSE PathsFrom(origin_nodes[i]) \o OriginPaths(i + 1)

RECURSIVE TaskPath(_)
\* the nodes of the tasks that task t awaits one through the other, t's last
TaskPath(t) ==
    IF tasks[t].previous_task = 0
    THEN <<tasks[t].node>>
    ELSE Append(TaskPath(tasks[t].previous_task), tasks[t].node)

\* C31: get_leaf_tasks on an origin returns one (flag, task) pair per distinct
\* path from that origin to a leaf node, in depth-first order of
\* outgoing_nodes; every returned task is a task of a leaf node, a different
\* task for every pair, and its flag is True if and only if that leaf is not
\* hanging.
LeafTaskPerPath ==
    \A rid \in DOMAIN leaf_tasks :
        LET tuples == leaf_tasks[rid]
            paths == OriginPaths(1)
        IN  /\ Len(tuples) = Len(paths)
            /\ \A i \in DOMAIN tuples :
                  LET t == tuples[i][2]
                      n == tasks[t].node
                  IN  /\ tasks[t].rid = rid
                      /\ TaskPath(t) = paths[i]
                      /\ nodes[n].outgoing_nodes = << >>
                      /\ tuples[i][1] = ~nodes[n].hanging
            /\ \A i, j \in DOMAIN tuples : tuples[i][2] = tuples[j][2] => i = j

\* below the join of HangJoin: four pairs, for the paths A-C-I, A-C-D, B-C-I and
\* B-C-D, in this order, those of the hanging I not to be awaited
LeafTaskPerPathWitness ==
    /\ graph = HangJoin
    /\ dispatched = 1
    /\ Len(leaf_tasks[1]) = 4
    /\ [i \in 1 .. 4 |-> TaskPath(leaf_tasks[1][i][2])]
          = << <<"A", "C", "I">>, <<"A", "C", "D">>, <<"B", "C", "I">>, <<"B", "C", "D">> >>
    /\ [i \in 1 .. 4 |-> leaf_tasks[1][i][1]] = <<FALSE, TRUE, FALSE, TRUE>>

\* ---- C32 ----
\* the leaf tasks get_leaf_tasks returned for node n in dispatch rid
LeafTasksOf(rid, n) ==
    {leaf_tasks[rid][i][2] : i \in {j \in DOMAIN leaf_tasks[rid] :
                                       tasks[leaf_tasks[rid][j][2]].node = n}}

\* task t resolved to the response of its node's own call
ResolvedToResponse(t) ==
    /\ tasks[t].pc = "done"
    /\ tasks[t].call \in CallsOf(tasks[t].node)
    /\ tasks[t].result = <<Response(tasks[t].node, tasks[t].call), NoMetadata>>

ReachableLeaves == {n \in ReachableNodes : nodes[n].outgoing_nodes = << >>}

\* C32: when every RPC succeeds on a freshly built acyclic graph, of the leaf
\* tasks created for a leaf node reachable from the origins never more than
\* one holds a response, and once all have finished exactly one has resolved
\* to the node's (response, metadata) and every other one to (None, {}); so
\* the awaited results hold exactly one response per non-hanging leaf,
\* whatever the interleaving.
OneResponsePerLeaf ==
    (dispatched = 1 /\ EveryRpcSucceeded) =>
        /\ \A n \in ReachableLeaves :
              LET responded == {t \in LeafTasksOf(1, n) : ResolvedToResponse(t)}
              IN  /\ Cardinality(responded) <= 1
                  /\ \A t \in LeafTasksOf(1, n) \ responded :
                        tasks[t].result = <<None, NoMetadata>>
                  /\ AllTasksFinished => Cardinality(responded) = 1
        /\ AllTasksFinished =>
              /\ \A n \in ReachableLeaves :
                    ~nodes[n].hanging =>
                        Cardinality({t \in Awaited(1) : tasks[t].node = n
                                                       /\ tasks[t].result[1] # None}) = 1
              /\ Cardinality({t \in Awaited(1) : tasks[t].result[1] # None})
                    = Cardinality({n \in ReachableLeaves : ~nodes[n].hanging})

\* JoinChain: D has two leaf tasks, for the paths through A and through B; both
\* have finished, one with D's response and one with (None, {})
OneResponsePerLeafWitness ==
    /\ graph = JoinChain
    /\ dispatched = 1
    /\ EveryRpcSucceeded
    /\ AllTasksFinished
    /\ Cardinality(LeafTasksOf(1, "D")) = 2
    /\ \E t, u \in LeafTasksOf(1, "D") :
          /\ ResolvedToResponse(t)
          /\ tasks[u].pc = "done" /\ tasks[u].result = <<None, NoMetadata>>

\* ---- C33 ----
\* every task created so far has ended: it returned, raised or was cancelled
EveryTaskCompleted ==
    \A t \in DOMAIN tasks : tasks[t].pc \in {"done", "raised", "cancelled"}

\* C33 (termination): for an acyclic graph description get_leaf_tasks returns,
\* and if every send_requests_once call comes back then, under a fair
\* scheduling, every task it created completes, the tasks of the nodes that
\* never collect all their parts included: no task waits forever for a part.
Termination == (dispatched = 1) ~> EveryTaskCompleted

\* the diamond after B's RPC returned is-error: every task has completed although
\* D holds fewer parts than it needs
TerminationWitness ==
    /\ graph = Diamond
    /\ dispatched = 1
    /\ EveryTaskCompleted
    /\ Len(nodes["D"].parts_to_send) < nodes["D"].number_of_parts
    /\ CallsOf("D") = {}

\* ---- C34 ----
\* the tasks whose send_requests_once call is in flight
InFlight == {t \in DOMAIN tasks : tasks[t].pc = "sending"}

\* C34 (part-count bound): during a single dispatch on a freshly built graph, in
\* every reachable state and for every node, the number of collected parts never
\* exceeds number_of_parts, and the batch handed to the node's RPC is not
\* extended while that RPC is in flight.
PartCountBound ==
    /\ \A n \in DOMAIN nodes :
          Len(nodes[n].parts_to_send) <= nodes[n].number_of_parts
    /\ \A t \in InFlight :
          nodes[tasks[t].node].parts_to_send = calls[tasks[t].call].requests

\* the diamond while D's RPC is in flight with both parts and every other task
\* has ended
PartCountBoundWitness ==
    /\ graph = Diamond
    /\ \E t \in InFlight :
          /\ tasks[t].node = "D"
          /\ Len(calls[tasks[t].call].requests) = 2
          /\ \A u \in DOMAIN tasks \ {t} : Finished(u)

\* ---- C35 ----
\* the tasks whose send_requests_once call raised
RaisedInRpc == {t \in DOMAIN tasks : tasks[t].pc = "raised" /\ tasks[t].call # 0}

\* what a raise of send_requests_once leaves behind, in one state
RaiseLeaves ==
    \A r \in RaisedInRpc :
        LET n == tasks[r].node
        IN  /\ \A d \in Descendants(n) : CallsOf(d) = {}
            /\ \A t \in DOMAIN tasks :
                  r \in AwaitedBy(t) =>
                      /\ tasks[t].pc \in {"pending", "raised"}
                      /\ tasks[t].call = 0
                      /\ tasks[t].result = NoResult
            /\ nodes[n].start_time # NoTime
            /\ nodes[n].end_time = NoTime
            /\ \A rid \in DOMAIN routes :
                  \A i \in DOMAIN routes[rid] :
                      routes[rid][i].pod = n =>
                          /\ routes[rid][i].start_time = nodes[n].start_time
                          /\ routes[rid][i].end_time = NoTime

\* an add_routes after the raise leaves an entry of the node in the route trace
RaisedNodeIsTraced ==
    \A rid \in DOMAIN added :
        added'[rid] # added[rid] =>
            \A r \in RaisedInRpc : HasRoute(routes'[rid], tasks[r].node)

\* C35 (an RPC that raises): if send_requests_once raises for a node, no
\* descendant of the node is invoked, every task that awaits the node's task,
\* directly or transitively, fails with the exception and never resolves to a
\* result, and the node keeps its start_time and no end_time, so that add_routes
\* adds its route entry without an end time.
RaisePropagates == [][RaiseLeaves' /\ RaisedNodeIsTraced]_vars

\* the inspector hanging off A raised in its RPC, B's awaited task returned, and
\* add_routes added the inspector's entry, which has a start and no end time
RaisePropagatesWitness ==
    /\ graph = Hang
    /\ dispatched = 1
    /\ \E r \in RaisedInRpc : tasks[r].node = "I"
    /\ \E i \in DOMAIN routes[1] :
          /\ routes[1][i].pod = "I"
          /\ routes[1][i].start_time # NoTime
          /\ routes[1][i].end_time = NoTime

\* ---- C36 ----
\* the RPC of node n returned without is-error
RpcSucceeded(n) ==
    \E t \in DOMAIN tasks :
        /\ tasks[t].node = n
        /\ tasks[t].call # 0
        /\ tasks[t].pc = "done"
        /\ "is-error" \notin tasks[t].result[2]

\* a task of node n handed on the is-error result of its parent
ShortCircuited(n) ==
    \E t \in DOMAIN tasks :
        /\ tasks[t].node = n
        /\ tasks[t].call = 0
        /\ tasks[t].pc = "done"
        /\ "is-error" \in tasks[t].result[2]

\* C36 (status of a route entry): a route entry carries a status if and only if
\* the node's own RPC returned is-error metadata; a node whose RPC succeeded, and
\* a node that was short-circuited by a parent's error, has no status in the
\* route trace.
StatusIffOwnError ==
    \A rid \in DOMAIN routes :
        \A i \in DOMAIN routes[rid] :
            LET n == routes[rid][i].pod
            IN  /\ routes[rid][i].status # NoStatus <=> RpcReturnedError(n)
                /\ RpcSucceeded(n) => routes[rid][i].status = NoStatus
                /\ (ShortCircuited(n) /\ ~RpcReturnedError(n)) =>
                       routes[rid][i].status = NoStatus

\* ---- C37 ----
\* the host of an address 'host.namespace.svc:port': what precedes the first '.'
RECURSIVE HostOf(_)
HostOf(address) ==
    IF address = << >> \/ Head(address) = "." THEN << >>
    ELSE <<Head(address)>> \o HostOf(Tail(address))

\* C37 (plan consistency): with the connection pool disabled, the keys of the
\* head's connection_list are exactly the shard ids of the pod's worker
\* deployments, and the host name of entry i is the dns_name of worker
\* deployment i, for every pod name ('/', '_' and upper case included) and every
\* shard count.
PlanConsistency ==
    (Planned /\ k8s.config.head_deployment # None /\ ~k8s.k8s_connection_pool) =>
        LET entries == HeadConnectionList.json
            workers == k8s.config.worker_deployments
        IN  /\ Len(entries) = Len(workers)
            /\ {entries[k][1] : k \in DOMAIN entries}
                  = {Str(workers[w].shard_id) : w \in DOMAIN workers}
            /\ \A k \in DOMAIN entries :
                  \A w \in DOMAIN workers :
                      entries[k][1] = Str(workers[w].shard_id) =>
                          HostOf(entries[k][2]) = workers[w].dns_name

\* the pod 'a/B' with two shards, pool disabled: the entry keyed '1' names the
\* host 'a-b-1', the dns_name of the worker deployment 'a/B-1' of shard 1
PlanConsistencyWitness ==
    /\ Planned
    /\ ~k8s.k8s_connection_pool
    /\ k8s.args.name = <<"a", "/", "B">>
    /\ k8s.args.shards = 2
    /\ k8s.config.worker_deployments[2].shard_id = 1
    /\ k8s.config.worker_deployments[2].name = <<"a", "/", "B", "-", "1">>
    /\ HeadConnectionList.json[2][1] = <<"1">>
    /\ HostOf(HeadConnectionList.json[2][2]) = <<"a", "-", "b", "-", "1">>

\* ---- C38 ----
\* the deployment args stored in the deployments of a planner
StoredArgs(config) ==
    [head    |-> IF config.head_deployment # None
                 THEN config.head_deployment.deployment_args ELSE None,
     workers |-> [k \in DOMAIN config.worker_deployments |->
                     config.worker_deployments[k].deployment_args],
     parsed  |-> config.deployment_args]

\* C38 (emitting has no effect on the plan): get_runtime_yamls / to_k8s_yaml
\* leave the stored deployment args of every deployment unchanged, uses and
\* uses_metas in particular (uses_metas gains no pea_id), and constructing a
\* K8sPodConfig leaves the caller's args unchanged.
EmitLeavesPlan ==
    [][/\ Planned => StoredArgs(k8s'.config) = StoredArgs(k8s.config)
       /\ k8s'.args = k8s.args]_vars

====
